---- MODULE Spec2Model ----
(***************************************************************************)
(* Model of the ketch application reconciler                               *)
(* (internal/controllers/app_controller.go): the rollout watcher           *)
(* (watchDeployEvents / watchFunc), the registry of cancel functions       *)
(* (CancelMap), the pod health predicate (checkPodStatus) and the          *)
(* reconcile pass (Reconcile / reconcile / deleteChart).                   *)
(***************************************************************************)
EXTENDS Integers, Sequences, FiniteSets, TLC

\* ------------------------------------------------------------------ bounds
\* Number of watcher goroutines ever started.
MaxWatchers == 2
\* Largest replica count a workload reports.
MaxReplicas == 1
\* Largest version the user deploys.
MaxVersion == 2
\* Number of registrations in the behaviours that exercise the registry alone.
MaxCalls == 4

\* ------------------------------------------------------------- vocabulary
DeploymentProgressing == "Progressing"
deadlineExeceededProgressCond == "ProgressDeadlineExceeded"

Normal == "Normal"
Warning == "Warning"
AppReconcileStarted == "AppReconcileStarted"
AppReconcileUpdate == "AppReconcileUpdate"
AppReconcileError == "AppReconcileError"
AppReconcileComplete == "AppReconcileComplete"

Group == "theketch.io"
AppNames == {"a1", "a2"}
ProcessNames == {"web", "worker"}
FrameworkNames == {"f1", "f2"}
\* Deployment versions of an application: those the user deploys one after
\* the other, and one more for an App edited to hold three deployments.
Versions == 1..(MaxVersion + 1)

\* No diagnostic: the description of the event has no error to carry.
NoDiagnostic == [kind |-> "", label |-> "", messages |-> <<>>]

\* An event handed to the recorder; what tells the descriptions apart, and
\* err is the timeout diagnostic the description ends with, if any.
EventWith(type, reason, what, err) ==
    [type |-> type, reason |-> reason, what |-> what, err |-> err]

Event(type, reason, what) == EventWith(type, reason, what, NoDiagnostic)

\* ------------------------------------------------------------------- pods
PodRunning == "Running"
PodSucceeded == "Succeeded"
PodPending == "Pending"
ConditionTrue == "True"
ConditionFalse == "False"

Pod(app, version, phase, conds) ==
    [app |-> app, version |-> version, phase |-> phase, conditions |-> conds]

\* c.List with MatchingLabels{app-name, app-deployment-version}.
ListPods(podStore, appName, depVersion) ==
    SelectSeq(podStore, LAMBDA p : p.app = appName /\ p.version = depVersion)

\* A loop that looks at the conditions of a pod before its phase.
RECURSIVE checkPodItemsConditionsFirst(_)
checkPodItemsConditionsFirst(items) ==
    IF items = <<>> THEN "ok"
    ELSE LET pod == Head(items)
         IN IF \E i \in DOMAIN pod.conditions : pod.conditions[i] # ConditionTrue
            THEN "all pods are not in healthy state"
            ELSE IF pod.phase = PodSucceeded THEN "ok"
            ELSE IF pod.phase # PodRunning THEN "all pods are not running"
            ELSE checkPodItemsConditionsFirst(Tail(items))

\* The loop over podList.Items: the first pod that decides, in list order.
RECURSIVE checkPodItems(_)
checkPodItems(items) ==
    IF items = <<>> THEN "ok"
    ELSE LET pod == Head(items)
         IN IF pod.phase = PodSucceeded THEN "ok"
            ELSE IF pod.phase # PodRunning THEN "all pods are not running"
            ELSE IF \E i \in DOMAIN pod.conditions : pod.conditions[i] # ConditionTrue
                 THEN "all pods are not in healthy state"
            ELSE checkPodItems(Tail(items))

\* checkPodStatus: "ok" stands for a nil error. listOk is the outcome of c.List.
checkPodStatus(podStore, listOk, appName, depVersion) ==
    IF appName = "" \/ depVersion <= 0 THEN "invalid app specifications"
    ELSE IF ~listOk THEN "list error"
    ELSE checkPodItems(ListPods(podStore, appName, depVersion))

\* Pod listings the cluster may answer with while a rollout is watched.
SamplePodStores ==
    { <<>>,
      <<Pod("a1", 1, PodRunning, <<ConditionTrue>>)>>,
      <<Pod("a1", 1, PodPending, <<ConditionFalse>>)>> }

\* -------------------------------------------------------------- workloads
\* The name of the workload of a process: <app>-<process>-<version>.
DeploymentName(appName, processName, version) == <<appName, processName, version>>

Keys == { DeploymentName(a, p, v) : a \in AppNames, p \in ProcessNames, v \in Versions }

ConditionsOk == <<[type |-> "Available", reason |-> "MinimumReplicasAvailable"]>>
ConditionsDeadline ==
    <<[type |-> "Available", reason |-> "MinimumReplicasAvailable"],
      [type |-> DeploymentProgressing, reason |-> deadlineExeceededProgressCond]>>

\* What Get of an apps/v1 Deployment answers: spec.replicas, the status
\* counts and the conditions; lag says observedGeneration < generation. The
\* deployment controller keeps updated <= replicas and unavailable >= 0.
\* A workload past its progress deadline is sampled with one status.
Deployments(name) ==
    { [name |-> name, lag |-> lag, specReplicas |-> s, replicas |-> r,
       updatedReplicas |-> u, unavailableReplicas |-> n, conditions |-> ConditionsOk] :
         lag \in BOOLEAN, s \in 0..MaxReplicas, r \in 0..MaxReplicas,
         u \in 0..MaxReplicas, n \in 0..MaxReplicas }
    \cup
    { [name |-> name, lag |-> FALSE, specReplicas |-> MaxReplicas, replicas |-> MaxReplicas,
       updatedReplicas |-> MaxReplicas, unavailableReplicas |-> 0,
       conditions |-> ConditionsDeadline] }
    \cup
    { [name |-> name, lag |-> FALSE, specReplicas |-> 0, replicas |-> MaxReplicas,
       updatedReplicas |-> MaxReplicas, unavailableReplicas |-> 0,
       conditions |-> ConditionsDeadline] }

ValidDeployments(name) ==
    { d \in Deployments(name) : d.updatedReplicas <= d.replicas }

\* ------------------------------------------------------------------ errors
\* An error value is its chain of layers, outermost first; the empty chain
\* is nil. conflict marks a layer the API server classified as a Conflict.
NilErr == <<>>

\* errors.New(msg), fmt.Errorf(msg) without %w: a fresh chain.
NewError(msg) == <<[msg |-> msg, conflict |-> FALSE]>>

\* fmt.Errorf(msg + ": %w", err)
Wrap(msg, err) == <<[msg |-> msg, conflict |-> FALSE]>> \o err

\* The API server's answer to a write against a stale resource version.
ConflictErr == <<[msg |-> "the object has been modified", conflict |-> TRUE]>>

\* errors.Unwrap
Unwrap(err) == Tail(err)

\* k8sErrors.IsConflict: looks at the error it is handed.
IsConflict(err) == err # NilErr /\ err[1].conflict

\* err.Error(): the messages of the chain.
ErrorString(err) == [i \in DOMAIN err |-> err[i].msg]

\* ----------------------------------------------------------------- objects
KetchFinalizer == "theketch.io/finalizer"
Scheduled == "Scheduled"
AppReconcileOutcomeReason == "AppReconcileOutcome"

NoCanary == [active |-> FALSE, started |-> 0, step |-> 0]
NoRef == [kind |-> "", name |-> ""]
NoStatus == [conditions |-> <<>>, framework |-> NoRef]

\* An App object: metadata (finalizers, deletion timestamp, the annotation
\* that asks for the chart to be uninstalled), spec (framework, deployments,
\* canary) and status. exists is FALSE for a name with no object.
NoApp ==
    [exists |-> FALSE, finalizers |-> <<>>, deleting |-> FALSE, uninstall |-> FALSE,
     framework |-> "", deployments |-> <<>>, canary |-> NoCanary, status |-> NoStatus]

AppDeployment(version, processes) == [version |-> version, processes |-> processes]

NewApp(framework, deployments) ==
    [NoApp EXCEPT !.exists = TRUE, !.uninstall = TRUE,
                  !.framework = framework, !.deployments = deployments]

\* AppQuotaLimit is a *int: set says it is not nil.
NoQuota == [set |-> FALSE, limit |-> 0]
Quota(n) == [set |-> TRUE, limit |-> n]

\* A Framework object: Status.Namespace (linked says it is not nil), the
\* quota and Status.Apps.
NoFramework == [exists |-> FALSE, linked |-> FALSE, quota |-> NoQuota, apps |-> <<>>]

NewFramework(linked, quota, members) ==
    [exists |-> TRUE, linked |-> linked, quota |-> quota, apps |-> members]

\* Framework.HasApp
HasApp(framework, name) == \E i \in DOMAIN framework.apps : framework.apps[i] = name

\* reference.GetReference(scheme, &framework)
GetReference(name) == [kind |-> "Framework", name |-> name]

\* controllerutil.ContainsFinalizer / AddFinalizer / RemoveFinalizer
\* A test that never finds the finalizer.
ContainsFinalizerNever(app, f) == FALSE

ContainsFinalizer(app, f) == \E i \in DOMAIN app.finalizers : app.finalizers[i] = f

AddFinalizer(app, f) ==
    IF ContainsFinalizer(app, f) THEN app
    ELSE [app EXCEPT !.finalizers = Append(@, f)]

RemoveFinalizer(app, f) ==
    [app EXCEPT !.finalizers = SelectSeq(@, LAMBDA x : x # f)]

\* App.SetCondition: replaces the condition of that type, or appends it.
SetCondition(app, type, status, message) ==
    LET c == [type |-> type, status |-> status, message |-> message]
        cs == app.status.conditions
    IN IF \E i \in DOMAIN cs : cs[i].type = type
       THEN [app EXCEPT !.status.conditions =
                [i \in DOMAIN cs |-> IF cs[i].type = type THEN c ELSE cs[i]]]
       ELSE [app EXCEPT !.status.conditions = Append(cs, c)]

\* The store with framework f1 as given and no other framework.
OneFramework(fw) == [f \in FrameworkNames |-> IF f = "f1" THEN fw ELSE NoFramework]

\* A helm release is opaque to the reconciler: it is there or not.
NoChart == [installed |-> FALSE]

\* What a pass is given besides the object store: the one call that fails
\* (site, the kind of error, and for a call made per process the number of
\* the process), the pod listing, the clock and whether the workloads read
\* lag behind their generation.
NoFault == [site |-> "none", kind |-> "none", at |-> 0]
NoPods == [store |-> <<>>, listOk |-> TRUE]
NoInput == [fault |-> NoFault, pods |-> NoPods, now |-> 0, lag |-> FALSE]

\* The outcome a pass hands to the status update: the Scheduled condition
\* and Status.Framework.
NoOutcome == [status |-> "", message |-> <<>>, framework |-> NoRef]

\* No call of checkPodStatus under way. A call has answer "" until it
\* returns.
NoCheck == [appName |-> "", depVersion |-> 0, store |-> <<>>, listOk |-> TRUE, answer |-> ""]

\* No call of hpaTargetMap under way. A call has returned FALSE until it
\* answers.
NoHpaCall ==
    [appName |-> "", deployments |-> <<>>, hpaList |-> <<>>, returned |-> FALSE,
     hpaTargets |-> {}]

\* No pass holds a Framework it has read and not yet acted on.
NoRead == [reading |-> FALSE, frameworks |-> [f \in FrameworkNames |-> NoFramework]]
NoneInFlight == [a \in AppNames |-> NoRead]


\* ---------------------------------------------------------------- state
VARIABLES
    CancelMap,   \* the registry: entries per key and the next generation token
    watchers,    \* the watcher goroutines started so far, in start order
    apps,        \* the App objects in the object store, by name
    frameworks,  \* the Framework objects in the object store, by name
    charts,      \* the helm release of each application
    podCheck,    \* a call of checkPodStatus: its arguments, the pods, its answer
    hpaCall,     \* a call of hpaTargetMap: its arguments and its answer
    inflight     \* per App, the Framework a pass under way has read (line 230)

vars == <<CancelMap, watchers, apps, frameworks, charts, podCheck, hpaCall, inflight>>

\* The object store.
storeVars == <<apps, frameworks, charts, podCheck, hpaCall, inflight>>

NoEntry == [cancel |-> 0, gen |-> 0]

\* ------------------------------------------------------- CancelWatchRegistry
\* cancel(): the context.CancelFunc of watcher w.
InvokeCancel(ws, w) ==
    [ws EXCEPT ![w].ctxCancelled = TRUE, ![w].cancelCalls = @ + 1]

\* replaceAndCancelPrevious(key, cancel): cancels the handle registered for
\* the key, installs the new one under a fresh generation token, and returns
\* the cleanup closure (key, token). One critical section.
replaceAndCancelPrevious(cm, ws, key, w) ==
    LET prev == cm.entries[key]
        gen == cm.nextGen
    IN [cm |-> [entries |-> [cm.entries EXCEPT ![key] = [cancel |-> w, gen |-> gen]],
                nextGen |-> gen + 1],
        ws |-> IF prev # NoEntry THEN InvokeCancel(ws, prev.cancel) ELSE ws,
        cleanup |-> [key |-> key, gen |-> gen]]

\* The cleanup closure: removes the entry only if it is still the one the
\* closure was issued for.
cleanupFunc(cm, cl) ==
    IF cm.entries[cl.key] # NoEntry /\ cm.entries[cl.key].gen = cl.gen
    THEN [cm EXCEPT !.entries[cl.key] = NoEntry]
    ELSE cm

\* ----------------------------------------------------------- RolloutWatcher
\* A watcher goroutine and the locals of watchFunc. pc: "start" (spawned,
\* loop not yet entered), "wait" (parked in the select), "complete",
\* "failed", "cancelled". cancelCalls counts the calls of its cancel
\* function; cleaned records what its deferred cleanup did ("no" while it
\* runs, then "removed" or "stale"). app stands for the *ketchv1.App the
\* goroutine was handed, of which it reads the name and the version of the
\* last deployment; appOverwritten says that object was written to by the
\* pass that owns it while the goroutine ran.
NewWatcher(app, processName, dep) ==
    [app |-> app, processName |-> processName, dep |-> [dep EXCEPT !.lag = FALSE],
     ctxCancelled |-> FALSE, cancelCalls |-> 0, cleanup |-> [key |-> dep.name, gen |-> 0],
     pc |-> "start",
     specReplicas |-> dep.specReplicas,
     oldUpdatedReplicas |-> -1, oldReadyUnits |-> -1, oldPendingTermination |-> -1,
     healthcheckTimeout |-> "nil", streamOpen |-> TRUE, stopped |-> FALSE,
     cleaned |-> "no", appOverwritten |-> FALSE]

Running(w) == w.pc \in {"start", "wait"}

\* A registration that stores the new handle and leaves the old one alone.
RegisterWatchKeepPrevious(cm, ws, key, w) ==
    [cm |-> [entries |-> [cm.entries EXCEPT ![key] = [cancel |-> w, gen |-> cm.nextGen]],
             nextGen |-> cm.nextGen + 1],
     ws |-> ws,
     cleanup |-> [key |-> key, gen |-> cm.nextGen]]

\* ctx, cancel := context.WithCancel(ctx);
\* cleanup := r.CancelMap.replaceAndCancelPrevious(dep.Name, cancel)
\* with the new watcher already appended to ws as number w.
RegisterWatch(cm, ws, key, w) == replaceAndCancelPrevious(cm, ws, key, w)

\* What can go wrong in watchDeployEvents before the watcher is registered.
WatchFaults == {"none", "clientError", "watchError", "getError", "genTimeout", "ctxDone"}

\* watchDeployEvents(app, dep, process): dep is the workload the reconciler
\* read, dep2 the one the generation wait reads last. Answers the error
\* ("" for nil), the events it recorded itself, the number of the watcher it
\* started (0 for none), and the registry and watchers afterwards.
watchDeployEvents(cm, ws, app, dep, processName, fault, dep2) ==
    LET fail(err, evs) == [err |-> err, events |-> evs, started |-> 0, cm |-> cm, ws |-> ws]
    IN IF fault = "clientError" THEN fail("client config error", <<>>)
       ELSE IF fault = "watchError" THEN fail("watch error", <<>>)
       ELSE IF dep.lag /\ fault = "getError"
            THEN fail("get deployment error",
                      <<Event(Warning, AppReconcileError, "error getting deployments")>>)
       ELSE IF dep.lag /\ fault = "genTimeout"
            THEN fail("timeout waiting for deployment generation to update",
                      <<Event(Warning, AppReconcileError, "generation timeout")>>)
       ELSE IF dep.lag /\ fault = "ctxDone" THEN fail("context canceled", <<>>)
       ELSE LET d == IF dep.lag THEN dep2 ELSE dep
                w == Len(ws) + 1
                reg == RegisterWatch(cm, Append(ws, NewWatcher(app, processName, d)), d.name, w)
            IN [err |-> "",
                events |-> <<Event(Normal, AppReconcileStarted, "started")>>,
                started |-> w,
                cm |-> reg.cm,
                ws |-> [reg.ws EXCEPT ![w].cleanup = reg.cleanup]]

\* A return that does not run the cleanup.
DeferredCleanupSkipped(cm, w) == cm

\* A cleanup that deletes whatever is registered under the key.
DeferredCleanupByKey(cm, w) == [cm EXCEPT !.entries[w.cleanup.key] = NoEntry]

\* defer cleanup()
DeferredCleanup(cm, w) == cleanupFunc(cm, w.cleanup)

\* The events are recorded and the return is missing: the watcher goes on
\* to the select.
ExitWithoutReturn(cm, w, pc, evs) ==
    [cm |-> cm, events |-> evs, w |-> [w EXCEPT !.pc = "wait"]]

\* A return from watchFunc with the events evs recorded in this step: the
\* deferred cleanup runs and the locals of the loop are gone (the workload
\* last observed is kept for reference).
Exit(cm, w, pc, evs) ==
    [cm |-> DeferredCleanup(cm, w),
     events |-> evs,
     w |-> [w EXCEPT !.pc = pc,
                     !.cleaned = IF DeferredCleanup(cm, w) # cm THEN "removed" ELSE "stale",
                     !.oldUpdatedReplicas = -1, !.oldReadyUnits = -1,
                     !.oldPendingTermination = -1,
                     !.healthcheckTimeout = "nil", !.streamOpen = TRUE]]

\* A completion test on the updated count instead of the ready units.
RolloutCompleteUpdatedOnly(dep, specReplicas) ==
    dep.updatedReplicas = specReplicas /\ dep.replicas = specReplicas

\* readyUnits == specReplicas && dep.Status.Replicas == specReplicas
RolloutComplete(dep, specReplicas) ==
    dep.updatedReplicas - dep.unavailableReplicas = specReplicas
        /\ dep.replicas = specReplicas

\* A scan that stops at the first condition.
DeadlineExceededFirstCondition(dep) ==
    /\ dep.conditions # <<>>
    /\ dep.conditions[1].type = DeploymentProgressing
    /\ dep.conditions[1].reason = deadlineExeceededProgressCond

\* The scan of dep.Status.Conditions at the top of the loop.
DeadlineExceeded(dep) ==
    \E i \in DOMAIN dep.conditions :
        dep.conditions[i].type = DeploymentProgressing
            /\ dep.conditions[i].reason = deadlineExeceededProgressCond

\* A gate that does not look at the timer.
HealthcheckStartsAgain(w, dep, pods) ==
    /\ dep.updatedReplicas = w.specReplicas
    /\ checkPodStatus(pods.store, pods.listOk, w.app.name, w.app.version) = "ok"

\* The gate of the health-check grace period: its timer is not set, all
\* units are created and checkPodStatus succeeds on the newest version.
HealthcheckStarts(w, dep, pods) ==
    /\ w.healthcheckTimeout = "nil"
    /\ dep.updatedReplicas = w.specReplicas
    /\ checkPodStatus(pods.store, pods.listOk, w.app.name, w.app.version) = "ok"

\* One pass over the loop body on the workload w0.dep, up to the select; on
\* break, the lines after the loop. evs0: the events this step has recorded
\* so far; pods: what the pod listing of checkPodStatus answers.
LoopBody(cm, w0, evs0, pods) ==
    LET dep == w0.dep
        spec == w0.specReplicas
    IN IF DeadlineExceeded(dep)
       THEN Exit(cm, w0, "failed",
                 Append(evs0, Event(Warning, AppReconcileError, "deadline exceeded")))
       ELSE
       LET evs1 == IF w0.oldUpdatedReplicas # dep.updatedReplicas
                   THEN Append(evs0, Event(Normal, AppReconcileUpdate, "units created"))
                   ELSE evs0
           startHealthcheck == HealthcheckStarts(w0, dep, pods)
           evs2 == IF startHealthcheck
                   THEN Append(evs1, Event(Normal, AppReconcileUpdate, "waiting healthcheck"))
                   ELSE evs1
           readyUnits == dep.updatedReplicas - dep.unavailableReplicas
           evs3 == IF w0.oldReadyUnits # readyUnits /\ readyUnits >= 0
                   THEN Append(evs2, Event(Normal, AppReconcileUpdate, "units ready"))
                   ELSE evs2
           pendingTermination == dep.replicas - dep.updatedReplicas
           evs4 == IF w0.oldPendingTermination # pendingTermination /\ pendingTermination > 0
                   THEN Append(evs3, Event(Normal, AppReconcileUpdate, "pending termination"))
                   ELSE evs3
           w5 == [w0 EXCEPT !.healthcheckTimeout = IF startHealthcheck THEN "armed" ELSE @,
                            !.oldUpdatedReplicas = dep.updatedReplicas,
                            !.oldReadyUnits = readyUnits,
                            !.oldPendingTermination = pendingTermination]
       IN IF RolloutComplete(dep, spec)
          THEN Exit(cm, [w5 EXCEPT !.stopped = TRUE], "complete",
                    Append(evs4, Event(Normal, AppReconcileComplete, "complete")))
          ELSE [cm |-> cm, events |-> evs4, w |-> [w5 EXCEPT !.pc = "wait"]]

\* A Get whose answer also replaces the desired count.
RefetchWithReplicas(cm, w, evs, fetched, pods) ==
    IF ~fetched.ok
    THEN Exit(cm, w, "failed",
              Append(evs, Event(Warning, AppReconcileError, "error getting deployments")))
    ELSE LoopBody(cm, [w EXCEPT !.dep = fetched.dep,
                                !.specReplicas = fetched.dep.specReplicas], evs, pods)

\* dep, err = cli.AppsV1().Deployments(namespace).Get(...) after the select,
\* then the next pass over the loop body.
Refetch(cm, w, evs, fetched, pods) ==
    IF ~fetched.ok
    THEN Exit(cm, w, "failed",
              Append(evs, Event(Warning, AppReconcileError, "error getting deployments")))
    ELSE LoopBody(cm, [w EXCEPT !.dep = fetched.dep], evs, pods)

\* A message on the watch channel: a cluster event with a name, or another object.
HasPrefix(s, prefix) == Len(s) >= Len(prefix) /\ SubSeq(s, 1, Len(prefix)) = prefix

isDeploymentEvent(msg, dep) == msg.isEvent /\ HasPrefix(msg.name, dep.name)

\* The application whose rollout the watcher behaviours follow.
WatchedApp == [name |-> "a1", version |-> 1]

WatchedKeys == { DeploymentName(WatchedApp.name, p, WatchedApp.version) : p \in ProcessNames }

WatchMessages ==
    { [isEvent |-> TRUE, name |-> Append(k, "pod")] : k \in WatchedKeys }
        \cup { [isEvent |-> FALSE, name |-> <<>>] }

\* ------------------------------------------------- the watchers' behaviour

\* What the pod listing may answer for a deployment version of an
\* application: its pods healthy, a pod pending, or the listing fails.
PodAnswersOf(appName, version) ==
    { [store |-> <<Pod(appName, version, PodRunning, <<ConditionTrue>>)>>, listOk |-> TRUE],
      [store |-> <<Pod(appName, version, PodPending, <<ConditionFalse>>)>>, listOk |-> TRUE],
      [store |-> <<>>, listOk |-> FALSE] }

\* The pods of one version healthy and a pod of another version pending.
PodAnswersOfTwo(appName, v1, v2) ==
    IF v1 = v2 THEN {}
    ELSE { [store |-> <<Pod(appName, x, PodRunning, <<ConditionTrue>>),
                        Pod(appName, y, PodPending, <<ConditionFalse>>)>>,
            listOk |-> TRUE] : <<x, y>> \in {<<v1, v2>>, <<v2, v1>>} }

\* What the pod listing may answer while a rollout is watched.
PodAnswers == PodAnswersOf(WatchedApp.name, WatchedApp.version)

\* The pod listing is read only where the health-check gate gets that far.
PodAnswersFor(w, dep) ==
    IF watchers[w].healthcheckTimeout = "nil" /\ dep.updatedReplicas = watchers[w].specReplicas
           /\ ~DeadlineExceeded(dep)
    THEN PodAnswers
    ELSE { [store |-> <<>>, listOk |-> FALSE] }

\* What the Get after the select may answer: an error, or the workload as it
\* is by then (its lag is not read any more).
Fetches(w) ==
    { [ok |-> TRUE, dep |-> d] :
        d \in { x \in ValidDeployments(watchers[w].dep.name) :
                  ~x.lag /\ x.specReplicas = watchers[w].dep.specReplicas } }
        \cup { [ok |-> FALSE, dep |-> watchers[w].dep] }

\* The outcomes [cm, events, w] of the steps watcher w can take next, one set
\* per entry into the loop and per case of the select.

\* The goroutine enters watchFunc: the first pass over the loop body.
StartSteps(w) ==
    IF watchers[w].pc = "start"
    THEN { LoopBody(CancelMap, watchers[w], <<>>, pods) :
             pods \in PodAnswersFor(w, watchers[w].dep) }
    ELSE {}

\* What follows a case of the select that falls through to the Get.
Refetches(w, evs) ==
    UNION { { Refetch(CancelMap, watchers[w], evs, fetched, pods) :
                pods \in PodAnswersFor(w, fetched.dep) } : fetched \in Fetches(w) }

\* case <-time.After(100 * time.Millisecond): a fresh timer, so the case is
\* taken only when the wait finds no other case ready.
TickSteps(w) ==
    IF watchers[w].pc = "wait" /\ ~watchers[w].ctxCancelled /\ watchers[w].streamOpen
    THEN Refetches(w, <<>>)
    ELSE {}

\* case msg, isOpen := <-watchCh with isOpen: a message arrived.
MessageEvents(w, msg) ==
    IF isDeploymentEvent(msg, watchers[w].dep)
    THEN <<Event(Normal, AppReconcileUpdate, "cluster event")>>
    ELSE <<>>

MessageSteps(w, msg) ==
    IF watchers[w].pc = "wait" /\ watchers[w].streamOpen
    THEN Refetches(w, MessageEvents(w, msg))
    ELSE {}

\* case msg, isOpen := <-watchCh with !isOpen: the break leaves the select.
ClosedSteps(w) ==
    IF watchers[w].pc = "wait" /\ ~watchers[w].streamOpen
    THEN Refetches(w, <<>>)
    ELSE {}

\* ------------------------------------------------- timeout diagnostics
PodReady == "Ready"
PodScheduled == "PodScheduled"
ConditionUnknown == "Unknown"

\* A pod as createDeployTimeoutError reads it: labels, name, phase, status
\* message and typed conditions; events: what the listing of the events of
\* the pod answers (eventsOk: the listing succeeds).
DiagPod(name, app, version, phase, message, conds, eventsOk, events) ==
    [name |-> name, app |-> app, version |-> version, phase |-> phase,
     message |-> message, conditions |-> conds, eventsOk |-> eventsOk, events |-> events]

PodCondition(type, status) == [type |-> type, status |-> status]

\* newInvalidPodPhaseError: the phase, the status message if there is one,
\* and the message of the last event of the pod if the listing answers any.
newInvalidPodPhaseError(pod) ==
    <<"invalid pod phase", pod.phase>>
        \o (IF pod.message # "" THEN <<pod.message>> ELSE <<>>)
        \o (IF pod.eventsOk /\ pod.events # <<>>
            THEN <<"last event", pod.events[Len(pod.events)]>>
            ELSE <<>>)

\* A selection that takes every pod not known to be ready.
podsForEvtsNotKnownReady(items) ==
    SelectSeq(items, LAMBDA pod :
        ~\E i \in DOMAIN pod.conditions :
            pod.conditions[i].type = PodReady /\ pod.conditions[i].status = ConditionTrue)

\* The loop podsLoop: the pods with a condition of type Ready whose status is
\* not True, in list order.
podsForEvts(items) ==
    SelectSeq(items, LAMBDA pod :
        \E i \in DOMAIN pod.conditions :
            pod.conditions[i].type = PodReady /\ pod.conditions[i].status # ConditionTrue)

\* The messages "Pod <name>: <err>", one per selected pod, as they are joined.
RECURSIVE podMessages(_)
podMessages(pods) ==
    IF pods = <<>> THEN <<>>
    ELSE <<[pod |-> Head(pods).name, err |-> newInvalidPodPhaseError(Head(pods))]>>
             \o podMessages(Tail(pods))

\* createDeployTimeoutError: the error of the pod listing if it fails, else
\* "timeout waiting <label> ... waiting for units" with the joined messages.
createDeployTimeoutError(listing, appName, version, label) ==
    IF ~listing.listOk THEN [kind |-> "list error", label |-> "", messages |-> <<>>]
    ELSE [kind |-> "timeout waiting", label |-> label,
          messages |-> podMessages(podsForEvts(ListPods(listing.store, appName, version)))]

\* What the pod listing of the diagnostic may answer: it fails, it finds no
\* pod, or it finds pods of the watched version (ready, not ready, with no
\* Ready condition, with and without status message and events) beside a
\* pod of another version.
DiagListings ==
    LET a == WatchedApp.name
        v == WatchedApp.version
        notReady == DiagPod("p1", a, v, PodPending, "", <<PodCondition(PodScheduled, ConditionTrue),
                                 PodCondition(PodReady, ConditionFalse)>>, TRUE, <<"e1", "e2">>)
        ready == DiagPod("p2", a, v, PodRunning, "", <<PodCondition(PodReady, ConditionTrue)>>,
                         TRUE, <<"e3">>)
        unscheduled == DiagPod("p3", a, v, PodPending, "m3",
                               <<PodCondition(PodScheduled, ConditionFalse)>>, TRUE, <<>>)
        unknown == DiagPod("p4", a, v, PodRunning, "m4",
                           <<PodCondition(PodReady, ConditionUnknown)>>, FALSE, <<>>)
        other == DiagPod("p5", a, v + 1, PodPending, "", <<PodCondition(PodReady, ConditionFalse)>>,
                         TRUE, <<>>)
    IN { [listOk |-> FALSE, store |-> <<>>],
         [listOk |-> TRUE, store |-> <<>>],
         [listOk |-> TRUE, store |-> <<ready, other>>],
         [listOk |-> TRUE, store |-> <<notReady, ready, unscheduled, unknown, other>>],
         [listOk |-> TRUE, store |-> <<unknown, unscheduled, notReady>>] }

\* A case of the select that returns on a timer: the diagnostic is built,
\* recorded in a Warning event behind the prefix of the case, and returned.
TimerCase(cm, w, listing, label, prefix) ==
    LET err == createDeployTimeoutError(listing, w.app.name, w.app.version, label)
    IN [err |-> err,
        exit |-> Exit(cm, w, "failed",
                      <<EventWith(Warning, AppReconcileError, prefix, err)>>)]

\* case <-healthcheckTimeout
HealthcheckTimeoutCases(w) ==
    IF watchers[w].pc = "wait" /\ watchers[w].healthcheckTimeout = "armed"
    THEN { TimerCase(CancelMap, watchers[w], listing, "healthcheck",
                     "error waiting for healthcheck") : listing \in DiagListings }
    ELSE {}

HealthcheckTimeoutSteps(w) == { c.exit : c \in HealthcheckTimeoutCases(w) }

\* A timeout that never fires.
TimeoutCasesNever(w) == {}

\* case <-timeout
TimeoutCases(w) ==
    IF watchers[w].pc = "wait"
    THEN { TimerCase(CancelMap, watchers[w], listing, "full rollout",
                     "deployment timeout") : listing \in DiagListings }
    ELSE {}

TimeoutSteps(w) == { c.exit : c \in TimeoutCases(w) }

\* A cancellation case that records a warning before it returns.
CtxDoneWithWarning(cm, w) ==
    Exit(cm, w, "cancelled", <<Event(Warning, AppReconcileError, "context canceled")>>)

\* case <-ctx.Done(): return ctx.Err()
CtxDone(cm, w) == Exit(cm, w, "cancelled", <<>>)

CancelledSteps(w) ==
    IF watchers[w].pc = "wait" /\ watchers[w].ctxCancelled
    THEN { CtxDone(CancelMap, watchers[w]) }
    ELSE {}

\* Every step watcher w can take in the current state.
WatcherSteps(w) ==
    StartSteps(w) \cup TickSteps(w) \cup ClosedSteps(w)
        \cup UNION { MessageSteps(w, msg) : msg \in WatchMessages }
        \cup HealthcheckTimeoutSteps(w) \cup TimeoutSteps(w) \cup CancelledSteps(w)

InitWatch ==
    /\ CancelMap = [entries |-> [k \in Keys |-> NoEntry], nextGen |-> 1]
    /\ watchers = <<>>
    /\ apps = [a \in AppNames |->
                 IF a = WatchedApp.name
                 THEN NewApp("f1", <<AppDeployment(WatchedApp.version, <<"web", "worker">>)>>)
                 ELSE NoApp]
    /\ frameworks = OneFramework(NewFramework(TRUE, NoQuota, <<WatchedApp.name>>))
    /\ charts = [a \in AppNames |-> NoChart]
    /\ podCheck = NoCheck
    /\ hpaCall = NoHpaCall
    /\ inflight = NoneInFlight

\* A reconcile pass reaches watchDeployEvents for process p; at most limit
\* watchers are ever started.
CallWatchDeployEvents(limit, p, dep, fault, dep2) ==
    /\ Len(watchers) < limit
    /\ fault \in {"getError", "genTimeout", "ctxDone"} => dep.lag
    /\ LET r == watchDeployEvents(CancelMap, watchers, WatchedApp, dep, p, fault, dep2)
       IN /\ CancelMap' = r.cm
          /\ watchers' = r.ws
    /\ UNCHANGED storeVars

\* The outcome r of a step of watcher w becomes the state.
Took(w, r) ==
    /\ CancelMap' = r.cm
    /\ watchers' = [watchers EXCEPT ![w] = r.w]
    /\ UNCHANGED storeVars

WatchFuncStart(w) == \E r \in StartSteps(w) : Took(w, r)

WaitTick(w) == \E r \in TickSteps(w) : Took(w, r)

WaitWatchMessage(w) == \E msg \in WatchMessages : \E r \in MessageSteps(w, msg) : Took(w, r)

WaitWatchClosed(w) == \E r \in ClosedSteps(w) : Took(w, r)

WaitHealthcheckTimeout(w) == \E r \in HealthcheckTimeoutSteps(w) : Took(w, r)

WaitTimeout(w) == \E r \in TimeoutSteps(w) : Took(w, r)

WaitCancelled(w) == \E r \in CancelledSteps(w) : Took(w, r)

\* The event stream of a running watcher ends (the API server closes it).
WatchChannelCloses(w) ==
    /\ Running(watchers[w])
    /\ watchers[w].streamOpen
    /\ watchers' = [watchers EXCEPT ![w].streamOpen = FALSE]
    /\ UNCHANGED <<CancelMap, storeVars>>

NextWatch ==
    \/ \E p \in ProcessNames :
         \E dep \in ValidDeployments(DeploymentName(WatchedApp.name, p, WatchedApp.version)) :
           \E fault \in WatchFaults :
             \E dep2 \in IF dep.lag
                         THEN { d \in ValidDeployments(dep.name) : ~d.lag }
                         ELSE {dep} :
               CallWatchDeployEvents(MaxWatchers, p, dep, fault, dep2)
    \/ \E w \in DOMAIN watchers :
         \/ WatchFuncStart(w)
         \/ WaitTick(w)
         \/ WaitWatchMessage(w)
         \/ WaitWatchClosed(w)
         \/ WaitHealthcheckTimeout(w)
         \/ WaitTimeout(w)
         \/ WaitCancelled(w)
         \/ WatchChannelCloses(w)

SpecWatch == InitWatch /\ [][NextWatch]_vars

\* The goroutine of watcher w is scheduled: it enters watchFunc.
WatcherEnters(w) == w \in DOMAIN watchers /\ WatchFuncStart(w)

\* The overall timeout of watcher w fires and the select, which picks among
\* its ready cases at random, takes that case in the end.
WatcherTimesOut(w) == w \in DOMAIN watchers /\ WaitTimeout(w)

\* The watchers of one process, started on a workload whose generation has
\* caught up, one after the other: the later one supersedes the earlier.
NextWatchFair ==
    \/ \E dep \in { d \in ValidDeployments(
                             DeploymentName(WatchedApp.name, "web", WatchedApp.version)) :
                        ~d.lag } :
         CallWatchDeployEvents(MaxWatchers, "web", dep, "none", dep)
    \/ \E w \in DOMAIN watchers :
         \/ WatchFuncStart(w)
         \/ WaitTick(w)
         \/ WaitWatchMessage(w)
         \/ WaitWatchClosed(w)
         \/ WaitHealthcheckTimeout(w)
         \/ WaitTimeout(w)
         \/ WaitCancelled(w)
         \/ WatchChannelCloses(w)

\* The watcher behaviours with goroutines that run and timers that fire.
SpecWatchFair ==
    /\ InitWatch /\ [][NextWatchFair]_vars
    /\ \A w \in 1..MaxWatchers : WF_vars(WatcherEnters(w)) /\ WF_vars(WatcherTimesOut(w))

\* The registry on its own: more registrations, on workloads that are either
\* still rolling out or already complete, and of the watchers only the steps
\* that reach the registry (the entry into the loop and the returns from the
\* wait); poll ticks and stream messages do not touch it.
RegistryDeployments(name) ==
    { d \in ValidDeployments(name) :
        /\ ~d.lag /\ d.conditions = ConditionsOk
        /\ d.specReplicas = MaxReplicas /\ d.replicas = MaxReplicas
        /\ d.unavailableReplicas = 0
        /\ d.updatedReplicas \in {0, MaxReplicas} }

NextRegistry ==
    \/ \E p \in ProcessNames :
         \E dep \in RegistryDeployments(DeploymentName(WatchedApp.name, p, WatchedApp.version)) :
            CallWatchDeployEvents(MaxCalls, p, dep, "none", dep)
    \/ \E w \in DOMAIN watchers :
         \/ WatchFuncStart(w)
         \/ WaitTimeout(w)
         \/ WaitCancelled(w)

SpecRegistry == InitWatch /\ [][NextRegistry]_vars

\* ------------------------------------------------- a workload that is rescaled
\* What the Get after the select answers where spec.replicas of the
\* workload may have been changed meanwhile (by an autoscaler or by hand).
RescaledFetches(w) ==
    { [ok |-> TRUE, dep |-> d] :
        d \in { x \in ValidDeployments(watchers[w].dep.name) : ~x.lag } }

\* The poll tick of watcher w on such a workload.
RescaledSteps(w) ==
    IF watchers[w].pc = "wait" /\ ~watchers[w].ctxCancelled /\ watchers[w].streamOpen
    THEN UNION { { Refetch(CancelMap, watchers[w], <<>>, fetched, pods) :
                     pods \in PodAnswersFor(w, fetched.dep) } :
                 fetched \in RescaledFetches(w) }
    ELSE {}

WaitTickRescaled(w) == \E r \in RescaledSteps(w) : Took(w, r)

\* Watchers on the workload of process web, one after the other, polling a
\* workload whose desired count changes under them.
NextScale ==
    \/ \E dep \in { d \in ValidDeployments(DeploymentName(WatchedApp.name, "web",
                                                         WatchedApp.version)) : ~d.lag } :
         CallWatchDeployEvents(MaxWatchers, "web", dep, "none", dep)
    \/ \E w \in DOMAIN watchers :
         \/ WatchFuncStart(w)
         \/ WaitTickRescaled(w)
         \/ WaitTimeout(w)
         \/ WaitCancelled(w)

SpecScale == InitWatch /\ [][NextScale]_vars

\* ------------------------------------------------------------ the reconciler
\* The state of a pass under way: the registry, the watchers and the object
\* store as they are by now, the pass's own copy of the App (app), the side
\* effects (ops) and events so far, whether the failing call was made, and
\* which of the other inputs were read.
StartPass(cm, ws, as, fs, ch, name, in) ==
    [cm |-> cm, ws |-> ws, apps |-> as, frameworks |-> fs, charts |-> ch,
     name |-> name, in |-> in, app |-> as[name],
     ops |-> <<>>, events |-> <<>>, hit |-> FALSE, reads |-> {}, spawned |-> {},
     checked |-> <<>>]

Op(s, op, arg) == [s EXCEPT !.ops = Append(@, [op |-> op, arg |-> arg])]

Emit(s, e) == [s EXCEPT !.events = Append(@, e)]

\* The call at site (for process number at) is the one that fails.
Fails(s, site, at) == s.in.fault.site = site /\ s.in.fault.at = at

Hit(s) == [s EXCEPT !.hit = TRUE]

Read(s, what) == [s EXCEPT !.reads = @ \cup {what}]

\* The pass lists the pods of a deployment version.
ReadPods(s, version) ==
    [Read(s, "pods") EXCEPT !.checked = Append(@, version)]

\* The error the failing call returns.
FaultErr(s) ==
    CASE s.in.fault.kind = "conflict" -> ConflictErr
      [] s.in.fault.kind = "wrappedConflict" -> Wrap(s.in.fault.site, ConflictErr)
      [] OTHER -> NewError(s.in.fault.site)

\* The client decodes the server's answer into the App object of the pass:
\* the goroutines spawned by the pass were handed a pointer to that object
\* (line 411), so the write lands in what they read.
DecodeIntoApp(s) ==
    [s EXCEPT !.ws = [i \in DOMAIN @ |->
                        IF i \in s.spawned THEN [@[i] EXCEPT !.appOverwritten = TRUE]
                        ELSE @[i]]]

\* r.Update(ctx, app): persists metadata and spec (status is a subresource)
\* and refreshes the copy. An object marked for deletion goes away with its
\* last finalizer.
UpdateApp(s) ==
    LET stored == [s.app EXCEPT !.status = s.apps[s.name].status]
        s1 == DecodeIntoApp(Op(s, "updateApp", s.name))
    IN IF stored.deleting /\ stored.finalizers = <<>>
       THEN [s1 EXCEPT !.apps[s.name] = NoApp, !.app = stored]
       ELSE [s1 EXCEPT !.apps[s.name] = stored, !.app = stored]

\* r.Status().Update(ctx, &app): persists the status and refreshes the copy.
UpdateStatus(s) ==
    LET stored == [s.apps[s.name] EXCEPT !.status = s.app.status]
    IN [DecodeIntoApp(Op(s, "updateStatus", s.name)) EXCEPT
           !.apps[s.name] = stored, !.app = stored]

\* deleteChart: the first framework, in list order, that has the app as a
\* member is cleaned; then the finalizer goes. Answers the pass state and
\* the error.
FrameworkList == <<"f1", "f2">>

uninstallHelmChart(app) == app.uninstall

\* A cleanup that empties the member list.
DeleteFromFrameworkClearing(s, f) ==
    LET framework == s.frameworks[f]
        s1 == IF uninstallHelmChart(s.app)
              THEN [Op(s, "deleteChart", s.name) EXCEPT !.charts[s.name] = NoChart]
              ELSE s
        members == <<>>
    IN IF uninstallHelmChart(s.app) /\ Fails(s, "helmFactoryDelete", 1)
       THEN [s |-> Hit(s), err |-> FaultErr(s)]
       ELSE IF uninstallHelmChart(s.app) /\ Fails(s, "deleteChart", 1)
       THEN [s |-> Hit(s), err |-> FaultErr(s)]
       ELSE IF Fails(s1, "patchFrameworkDelete", 1)
       THEN [s |-> Hit(s1), err |-> FaultErr(s1)]
       ELSE [s |-> [Op(s1, "patchFramework", f) EXCEPT !.frameworks[f].apps = members],
             err |-> NilErr]

\* Lines 684-707: the chart and the membership of the app in framework f go.
DeleteFromFramework(s, f) ==
    LET framework == s.frameworks[f]
        s1 == IF uninstallHelmChart(s.app)
              THEN [Op(s, "deleteChart", s.name) EXCEPT !.charts[s.name] = NoChart]
              ELSE s
        members == SelectSeq(framework.apps, LAMBDA n : n # s.name)
    IN IF uninstallHelmChart(s.app) /\ Fails(s, "helmFactoryDelete", 1)
       THEN [s |-> Hit(s), err |-> FaultErr(s)]
       ELSE IF uninstallHelmChart(s.app) /\ Fails(s, "deleteChart", 1)
       THEN [s |-> Hit(s), err |-> FaultErr(s)]
       ELSE IF Fails(s1, "patchFrameworkDelete", 1)
       THEN [s |-> Hit(s1), err |-> FaultErr(s1)]
       ELSE [s |-> [Op(s1, "patchFramework", f) EXCEPT !.frameworks[f].apps = members],
             err |-> NilErr]

deleteChart(s) ==
    LET owners == SelectSeq(FrameworkList,
                            LAMBDA f : s.frameworks[f].exists /\ HasApp(s.frameworks[f], s.name))
        r == IF owners = <<>> THEN [s |-> s, err |-> NilErr]
             ELSE DeleteFromFramework(s, Head(owners))
        s2 == [r.s EXCEPT !.app = RemoveFinalizer(@, KetchFinalizer)]
    IN IF Fails(s, "listFrameworks", 1) THEN [s |-> Hit(s), err |-> FaultErr(s)]
       ELSE IF r.err # NilErr THEN r
       ELSE IF Fails(s2, "updateRemoveFinalizer", 1) THEN [s |-> Hit(s2), err |-> FaultErr(s2)]
       ELSE [s |-> UpdateApp(s2), err |-> NilErr]

\* A result that never asks for the re-queue after reconcileTimeout.
RetWithoutTimeout(s, framework, useTimeout, err) ==
    [s |-> s, framework |-> framework, useTimeout |-> FALSE, err |-> err]

\* What reconcile answers: appReconcileResult and the pass state.
Ret(s, framework, useTimeout, err) ==
    [s |-> s, framework |-> framework, useTimeout |-> useTimeout, err |-> err]

\* The workload of a process as the reconciler reads it: the rollout has
\* not begun; lag says the observed generation is behind.
WorkloadRead(name, lag) ==
    [name |-> name, lag |-> lag, specReplicas |-> MaxReplicas, replicas |-> MaxReplicas,
     updatedReplicas |-> 0, unavailableReplicas |-> 0, conditions |-> ConditionsOk]

\* The loop over latestDeployment.Processes, from process number idx on.
RECURSIVE watchProcesses(_, _, _, _)
watchProcesses(s, version, procs, idx) ==
    IF idx > Len(procs) THEN [s |-> s, err |-> NilErr]
    ELSE LET p == procs[idx]
             name == DeploymentName(s.name, p, version)
             wf == IF Fails(s, "watchDeployEvents", idx) THEN s.in.fault.kind ELSE "none"
             r == watchDeployEvents(s.cm, s.ws, [name |-> s.name, version |-> version],
                                    WorkloadRead(name, s.in.lag), p, wf,
                                    WorkloadRead(name, FALSE))
             s1 == [Read(s, "lag") EXCEPT !.cm = r.cm, !.ws = r.ws, !.events = @ \o r.events]
         IN IF Fails(s, "getDeployment", idx)
            THEN [s |-> Hit(s), err |-> Wrap("failed to get deployment", FaultErr(s))]
            ELSE IF r.err # ""
            THEN [s |-> Hit(s1), err |-> Wrap("failed to get deploy events", NewError(r.err))]
            ELSE watchProcesses([Op(s1, "watch", p) EXCEPT !.spawned = @ \cup {r.started}],
                                version, procs, idx + 1)

\* A watcher start that takes the first deployment for the latest.
ApplyChartAndWatchOldest(s, ref, appChrt) ==
    LET s1 == [Op(s, "updateChart", s.name) EXCEPT
                  !.charts[s.name] = [installed |-> TRUE]]
        latestDeployment == s.app.deployments[1]
        w == watchProcesses(s1, latestDeployment.version, latestDeployment.processes, 1)
    IN IF Fails(s, "updateChart", 1)
       THEN Ret(Hit(s), NoRef, FALSE, Wrap("failed to update helm chart", FaultErr(s)))
       ELSE IF Len(s.app.deployments) > 0 /\ ~s.app.canary.active
       THEN IF w.err # NilErr THEN Ret(w.s, NoRef, FALSE, w.err)
            ELSE Ret(w.s, ref, TRUE, NilErr)
       ELSE Ret(s1, ref, FALSE, NilErr)

\* Lines 329-367: the chart is applied and, with canary off, the processes
\* of the latest deployment get their watchers.
ApplyChartAndWatch(s, ref, appChrt) ==
    LET s1 == [Op(s, "updateChart", s.name) EXCEPT
                  !.charts[s.name] = [installed |-> TRUE]]
        latestDeployment == s.app.deployments[Len(s.app.deployments)]
        w == watchProcesses(s1, latestDeployment.version, latestDeployment.processes, 1)
    IN IF Fails(s, "updateChart", 1)
       THEN Ret(Hit(s), NoRef, FALSE, Wrap("failed to update helm chart", FaultErr(s)))
       ELSE IF Len(s.app.deployments) > 0 /\ ~s.app.canary.active
       THEN IF w.err # NilErr THEN Ret(w.s, NoRef, FALSE, w.err)
            ELSE Ret(w.s, ref, TRUE, NilErr)
       ELSE Ret(s1, ref, FALSE, NilErr)

\* The requeue interval, on the model's clock.
reconcileTimeout == 1

\* A timeout that never expires, and one that expires on the dot.
timeoutExpiredNever(t, now) == FALSE

timeoutExpiredInclusive(t, now) == t + reconcileTimeout <= now

\* timeoutExpired: t.Add(reconcileTimeout).Before(now)
timeoutExpired(t, now) == t + reconcileTimeout < now

\* App.DoRollback: the canary deployment is discarded, canary is off.
DoRollback(app) ==
    [app EXCEPT !.deployments = <<app.deployments[1]>>, !.canary = NoCanary]

\* Largest number of deployments of an App.
MaxDeployments == 3

\* Number of traffic steps of a canary rollout.
MaxCanarySteps == 2

\* App.DoCanary: one more traffic step; the last one promotes the canary
\* deployment and turns canary off. Nothing to do with canary off.
DoCanary(app) ==
    IF ~app.canary.active THEN app
    ELSE IF app.canary.step + 1 >= MaxCanarySteps
    THEN [app EXCEPT !.deployments = <<app.deployments[Len(app.deployments)]>>,
                     !.canary = NoCanary]
    ELSE [app EXCEPT !.canary.step = @ + 1]

\* Lines 309-326: the HPA listing, the canary step and its update.
CanaryStep(s) ==
    LET s1 == Op([s EXCEPT !.app = DoCanary(@)], "doCanary", s.name)
    IN IF Fails(s, "listHPA", 1)
       THEN [s |-> Hit(s), useTimeout |-> FALSE, err |-> NewError("failed to find HPAs")]
       ELSE IF s.app.canary.active /\ Fails(s, "doCanary", 1)
       THEN [s |-> Hit(s), useTimeout |-> FALSE,
             err |-> Wrap("canary update failed", FaultErr(s))]
       ELSE IF Fails(s1, "canaryUpdate", 1)
       THEN [s |-> Hit(s1), useTimeout |-> FALSE,
             err |-> Wrap("canary update failed", FaultErr(s1))]
       ELSE [s |-> UpdateApp(s1), useTimeout |-> FALSE, err |-> NilErr]

\* Lines 280-327: the canary branch. Answers the pass state, useTimeout and
\* the error.
Canary(s) ==
    LET app == s.app
        version == app.deployments[2].version
        podErr == checkPodStatus(s.in.pods.store, s.in.pods.listOk, s.name, version)
        s1 == Op([Read(ReadPods(s, version), "clock") EXCEPT !.app = DoRollback(@)],
                 "rollback", s.name)
    IN IF ~app.canary.active THEN [s |-> s, useTimeout |-> FALSE, err |-> NilErr]
       ELSE IF Len(app.deployments) <= 1
       THEN [s |-> [s EXCEPT !.app.canary = NoCanary], useTimeout |-> FALSE,
             err |-> NewError("no canary deployment found")]
       ELSE IF podErr = "ok" THEN CanaryStep(ReadPods(s, version))
       ELSE IF ~timeoutExpired(app.canary.started, s.in.now)
       THEN [s |-> Read(ReadPods(s, version), "clock"), useTimeout |-> TRUE,
             err |-> Wrap("canary update failed", NewError(podErr))]
       ELSE IF Fails(s1, "rollbackUpdate", 1)
       THEN [s |-> Hit(s1), useTimeout |-> FALSE,
             err |-> Wrap("failed to update app crd", FaultErr(s1))]
       ELSE CanaryStep(UpdateApp(s1))

\* r.Get of a Framework by name.
GetFramework(fs, name) == IF name \in FrameworkNames THEN fs[name] ELSE NoFramework

\* A quota test that rejects only above the limit.
QuotaExceededAboveLimit(framework, name) ==
    /\ ~HasApp(framework, name)
    /\ framework.quota.set
    /\ Len(framework.apps) > framework.quota.limit
    /\ framework.quota.limit # -1

\* Line 250: the quota test.
QuotaExceeded(framework, name) ==
    /\ ~HasApp(framework, name)
    /\ framework.quota.set
    /\ Len(framework.apps) >= framework.quota.limit
    /\ framework.quota.limit # -1

\* A namespace test that takes every framework for linked.
NamespaceLinkedAlways(framework) == TRUE

\* Line 239: framework.Status.Namespace != nil
NamespaceLinked(framework) == framework.linked

\* A pass that never records the membership.
JoinFrameworkNever(s, f) == [s |-> s, err |-> NilErr]

\* A membership patch that appends the name whether or not it is there.
JoinFrameworkUnguarded(s, f) ==
    IF Fails(s, "patchFramework", 1)
    THEN [s |-> Hit(s), err |-> Wrap("failed to update framework status", FaultErr(s))]
    ELSE [s |-> [Op(s, "patchFramework", f) EXCEPT !.frameworks[f].apps = Append(@, s.name)],
          err |-> NilErr]

\* Lines 263-272: the app joins the framework's member list.
JoinFramework(s, f) ==
    IF HasApp(s.frameworks[f], s.name) THEN [s |-> s, err |-> NilErr]
    ELSE IF Fails(s, "patchFramework", 1)
    THEN [s |-> Hit(s), err |-> Wrap("failed to update framework status", FaultErr(s))]
    ELSE [s |-> [Op(s, "patchFramework", f) EXCEPT !.frameworks[f].apps = Append(@, s.name)],
          err |-> NilErr]

\* chart.New(app, &framework, ...): the chart of the app as it is then.
NewChart(app) == [deployments |-> app.deployments, canary |-> app.canary]

\* reconcile
reconcile(s) ==
    LET f == s.app.framework
        framework == GetFramework(s.frameworks, f)
        ref == GetReference(f)
        appChrt == NewChart(s.app)
        j == JoinFramework(s, f)
        c == Canary(j.s)
    IN IF Fails(s, "getFramework", 1) \/ ~framework.exists
       THEN Ret(IF Fails(s, "getFramework", 1) THEN Hit(s) ELSE s, NoRef, FALSE,
                NewError("framework is not found"))
       ELSE IF Fails(s, "getReference", 1) THEN Ret(Hit(s), NoRef, FALSE, FaultErr(s))
       ELSE IF ~NamespaceLinked(framework)
       THEN Ret(s, NoRef, FALSE,
                NewError("framework is not linked to a kubernetes namespace"))
       ELSE IF Fails(s, "templates", 1)
       THEN Ret(Hit(s), NoRef, FALSE,
                Wrap("failed to read configmap with the app's chart templates", FaultErr(s)))
       ELSE IF QuotaExceeded(framework, s.name)
       THEN Ret(s, NoRef, FALSE, NewError("you have reached the limit of apps"))
       ELSE IF Fails(s, "chartNew", 1) THEN Ret(Hit(s), NoRef, FALSE, FaultErr(s))
       ELSE IF j.err # NilErr THEN Ret(j.s, NoRef, FALSE, j.err)
       ELSE IF Fails(j.s, "helmFactory", 1) THEN Ret(Hit(j.s), NoRef, FALSE, FaultErr(j.s))
       ELSE IF c.err # NilErr THEN Ret(c.s, NoRef, c.useTimeout, c.err)
       ELSE ApplyChartAndWatch(c.s, ref, appChrt)

\* An error test that looks at the outermost error only.
isConflictErrorOutermost(err) == IsConflict(err)

\* appReconcileResult.isConflictError: the loop down the chain.
RECURSIVE isConflictError(_)
isConflictError(err) ==
    IF err = NilErr THEN FALSE
    ELSE IF IsConflict(err) THEN TRUE
    ELSE isConflictError(Unwrap(err))

\* An outcome event that is Normal whatever the pass came to.
OutcomeEventNormal(type, err) == Event(Normal, AppReconcileOutcomeReason, ErrorString(err))

\* An outcome event: type and description (the error, if any).
OutcomeEvent(type, err) == Event(type, AppReconcileOutcomeReason, ErrorString(err))

\* What a pass leaves behind: the registry, the watchers and the store, and
\* the record of the pass. path is where the pass ended: "getError",
\* "notFound", "finalizerError", "delete", "conflict" (reconcile ran into a
\* conflict), or with the status update: "statusConflict", "statusError",
\* "done". scheduleErr is the error of reconcile where it ran.
EndPass(s, path, err, requeue, outcome) ==
    [cm |-> s.cm, ws |-> s.ws, apps |-> s.apps, frameworks |-> s.frameworks,
     charts |-> s.charts, hit |-> s.hit, reads |-> s.reads,
     pass |-> [app |-> s.name, in |-> s.in, path |-> path, ops |-> s.ops,
               events |-> s.events, err |-> err, requeue |-> requeue,
               outcome |-> outcome, scheduleErr |-> NilErr, checked |-> s.checked]]

ScheduledCondition(app) ==
    LET cs == SelectSeq(app.status.conditions, LAMBDA c : c.type = Scheduled)
    IN IF cs = <<>> THEN [status |-> "", message |-> <<>>]
       ELSE [status |-> cs[1].status, message |-> cs[1].message]

Outcome(app) ==
    [status |-> ScheduledCondition(app).status,
     message |-> ScheduledCondition(app).message,
     framework |-> app.status.framework]

\* A requeue rule in which the canary step interval wins.
RequeueAfterCanaryFirst(useTimeout, canaryActive) ==
    IF canaryActive THEN "StepTimeInteval"
    ELSE IF useTimeout THEN "reconcileTimeout"
    ELSE ""

\* Lines 170-178: the canary step interval with canary on, overridden by
\* reconcileTimeout where reconcile asked for it.
RequeueAfter(useTimeout, canaryActive) ==
    IF useTimeout THEN "reconcileTimeout"
    ELSE IF canaryActive THEN "StepTimeInteval"
    ELSE ""

\* Lines 141-180 of Reconcile: the outcome of reconcile goes to the status.
PersistOutcome(s0, res) ==
    LET s1 == IF res.err # NilErr
              THEN [Emit(s0, OutcomeEvent(Warning, res.err)) EXCEPT
                       !.app = SetCondition(@, Scheduled, ConditionFalse, ErrorString(res.err))]
              ELSE [Emit(s0, OutcomeEvent(Normal, NilErr)) EXCEPT
                       !.app = SetCondition([@ EXCEPT !.status.framework = res.framework],
                                            Scheduled, ConditionTrue, <<>>)]
        s2 == UpdateStatus(s1)
        requeue == RequeueAfter(res.useTimeout, s2.app.canary.active)
        end == IF Fails(s1, "statusUpdate", 1)
               THEN IF IsConflict(FaultErr(s1))
                    THEN EndPass(Hit(s1), "statusConflict", FaultErr(s1), "", Outcome(s1.app))
                    ELSE EndPass(Hit(Emit(s1, OutcomeEvent(Warning, FaultErr(s1)))),
                                 "statusError", FaultErr(s1), "", Outcome(s1.app))
               ELSE EndPass(s2, "done", res.err, requeue, Outcome(s1.app))
    IN [end EXCEPT !.pass.scheduleErr = res.err]

\* What r.Get answers for a name with no object.
NotFoundErr == NewError("not found")

\* An error filter that lets the not-found error through.
IgnoreNotFoundNever(err) == err

\* client.IgnoreNotFound(err)
IgnoreNotFound(err) == IF err = NotFoundErr THEN NilErr ELSE err

\* A deletion test that takes no App for marked.
MarkedForDeletionNever(app) == FALSE

\* Line 128: !app.ObjectMeta.DeletionTimestamp.IsZero()
MarkedForDeletion(app) == app.deleting

\* Reconcile
Reconcile(cm, ws, as, fs, ch, name, in) ==
    LET s0 == StartPass(cm, ws, as, fs, ch, name, in)
        s1 == [s0 EXCEPT !.app = AddFinalizer(@, KetchFinalizer)]
        s2 == IF ContainsFinalizer(s0.app, KetchFinalizer) THEN s0 ELSE UpdateApp(s1)
        d == deleteChart(s2)
        res == reconcile(s2)
    IN IF Fails(s0, "getApp", 1)
       THEN EndPass(Hit(s0), "getError", IgnoreNotFound(FaultErr(s0)), "", NoOutcome)
       ELSE IF ~s0.app.exists
       THEN EndPass(s0, "notFound", IgnoreNotFound(NotFoundErr), "", NoOutcome)
       ELSE IF ~ContainsFinalizer(s0.app, KetchFinalizer) /\ Fails(s0, "updateFinalizer", 1)
       THEN EndPass(Hit(s1), "finalizerError", FaultErr(s1), "", NoOutcome)
       ELSE IF MarkedForDeletion(s2.app) THEN EndPass(d.s, "delete", d.err, "", NoOutcome)
       ELSE IF isConflictError(res.err)
       THEN [EndPass(res.s, "conflict", res.err, "", NoOutcome) EXCEPT
                !.pass.scheduleErr = res.err]
       ELSE PersistOutcome(res.s, res)

\* ------------------------------------------------- the reconciler's behaviour
\* The calls of a pass that may fail, with the kinds of error they return.
Faults ==
    { [site |-> x, kind |-> "error", at |-> 1] :
        x \in {"getApp", "updateFinalizer", "getFramework", "getReference", "templates",
               "chartNew", "patchFramework", "helmFactory", "rollbackUpdate", "listHPA",
               "doCanary", "canaryUpdate", "updateChart", "statusUpdate", "listFrameworks",
               "helmFactoryDelete", "deleteChart", "patchFrameworkDelete",
               "updateRemoveFinalizer"} }
    \cup { [site |-> x, kind |-> "conflict", at |-> 1] :
        x \in {"updateFinalizer", "patchFramework", "helmFactory", "rollbackUpdate",
               "canaryUpdate", "updateChart", "statusUpdate", "updateRemoveFinalizer"} }
    \cup { [site |-> "updateChart", kind |-> "wrappedConflict", at |-> 1] }
    \cup { [site |-> "getDeployment", kind |-> "error", at |-> i] : i \in 1..2 }
    \cup { [site |-> "watchDeployEvents", kind |-> k, at |-> 1] :
             k \in WatchFaults \ {"none"} }
    \cup { [site |-> "watchDeployEvents", kind |-> "watchError", at |-> 2] }

\* The calls on the delete path and those of the canary branch.
DeleteSites ==
    {"listFrameworks", "helmFactoryDelete", "deleteChart", "patchFrameworkDelete",
     "updateRemoveFinalizer"}

CanarySites == {"rollbackUpdate", "listHPA", "doCanary", "canaryUpdate"}

WatchSites == {"getDeployment", "watchDeployEvents"}

\* The calls a pass over application a can get to, given the App it finds.
FaultsOf(a) ==
    LET app == apps[a]
    IN { f \in Faults :
           IF ~app.exists THEN f.site = "getApp"
           ELSE IF app.deleting THEN f.site \in DeleteSites \cup {"getApp"}
           ELSE /\ f.site \notin DeleteSites
                /\ f.site \in CanarySites => app.canary.active /\ Len(app.deployments) > 1 }
       \cup {NoFault}

\* The inputs of a pass over application a: the pod listing and the clock
\* are read only by the canary branch, on the second deployment; the lag of
\* the workloads only where the watchers are started.
Inputs(a) ==
    LET app == apps[a]
        canary == app.exists /\ ~app.deleting /\ app.canary.active /\ Len(app.deployments) > 1
        second == app.deployments[2].version
        newest == app.deployments[Len(app.deployments)].version
        answers == PodAnswersOf(a, second) \cup PodAnswersOf(a, newest)
                       \cup PodAnswersOfTwo(a, second, newest)
    IN { [fault |-> f, pods |-> p, now |-> n, lag |-> l] :
           f \in FaultsOf(a),
           p \in IF canary THEN answers \cup {NoPods} ELSE {NoPods},
           n \in IF canary
                 THEN {0, app.canary.started + reconcileTimeout,
                       app.canary.started + reconcileTimeout + 1}
                 ELSE {0},
           l \in BOOLEAN }

\* An input names nothing the pass does not use: the failing call is made,
\* and what is not read is left at its default.
Used(in, r) ==
    /\ in.fault # NoFault => r.hit
    /\ in.pods # NoPods => "pods" \in r.reads
    /\ in.now # 0 <=> "clock" \in r.reads
    /\ in.lag => "lag" \in r.reads

\* The failing calls the behaviours go through: one for each place where a
\* pass can stop with some of its writes made and others not. (The claims
\* look at every pass Inputs allows, in every state these reach.)
TakenFaults ==
    { NoFault,
      [site |-> "helmFactory", kind |-> "error", at |-> 1],
      [site |-> "updateChart", kind |-> "wrappedConflict", at |-> 1],
      [site |-> "watchDeployEvents", kind |-> "watchError", at |-> 2],
      [site |-> "statusUpdate", kind |-> "conflict", at |-> 1],
      [site |-> "patchFrameworkDelete", kind |-> "error", at |-> 1],
      [site |-> "updateRemoveFinalizer", kind |-> "conflict", at |-> 1] }

TakenInputs(a) == { in \in Inputs(a) : in.fault \in TakenFaults }

\* The framework the applications name, as the passes may find it: missing,
\* not linked to a namespace, or linked, with or without a quota and with
\* members of its own.
InitFrameworks ==
    { NoFramework,
      NewFramework(FALSE, NoQuota, <<>>),
      NewFramework(TRUE, NoQuota, <<"b1">>),
      NewFramework(TRUE, Quota(-1), <<"b1", "b2">>),
      NewFramework(TRUE, Quota(1), <<>>),
      NewFramework(TRUE, Quota(2), <<"b1">>),
      NewFramework(TRUE, Quota(2), <<"b1", "b2">>) }

Init ==
    /\ CancelMap = [entries |-> [k \in Keys |-> NoEntry], nextGen |-> 1]
    /\ watchers = <<>>
    /\ apps = [a \in AppNames |->
                 IF a = "a1" THEN NewApp("f1", <<AppDeployment(1, <<"web", "worker">>)>>)
                 ELSE NoApp]
    /\ frameworks \in { OneFramework(fw) : fw \in InitFrameworks }
    /\ charts = [a \in AppNames |-> NoChart]
    /\ podCheck = NoCheck
    /\ hpaCall = NoHpaCall
    /\ inflight = NoneInFlight

\* A trigger for application a is served: one Reconcile pass.
ReconcilePass(a, in) ==
    \E r \in { Reconcile(CancelMap, watchers, apps, frameworks, charts, a, in) } :
       /\ Used(in, r)
       /\ Len(r.ws) <= MaxWatchers
       /\ CancelMap' = r.cm
       /\ watchers' = r.ws
       /\ apps' = r.apps
       /\ frameworks' = r.frameworks
       /\ charts' = r.charts
       /\ UNCHANGED <<podCheck, hpaCall, inflight>>

\* The user deploys a new version, as a canary rollout or at once.
UserDeploys(a, canary) ==
    /\ apps[a].exists /\ ~apps[a].deleting
    /\ apps[a].deployments # <<>>
    /\ apps[a].deployments[Len(apps[a].deployments)].version + 1 <= MaxVersion
    /\ Len(apps[a].deployments) < 2
    /\ apps' = [apps EXCEPT
                  ![a].deployments =
                      Append(@, AppDeployment(@[Len(@)].version + 1, <<"web">>)),
                  ![a].canary = IF canary THEN [active |-> TRUE, started |-> 0, step |-> 0]
                                ELSE @]
    /\ UNCHANGED <<CancelMap, watchers, frameworks, charts, podCheck, hpaCall, inflight>>

\* The user turns canary on by editing the App.
UserSetsCanary(a) ==
    /\ apps[a].exists /\ ~apps[a].deleting /\ ~apps[a].canary.active
    /\ apps' = [apps EXCEPT ![a].canary = [active |-> TRUE, started |-> 0, step |-> 0]]
    /\ UNCHANGED <<CancelMap, watchers, frameworks, charts, podCheck, hpaCall, inflight>>

\* The user deletes the App, having set or not the annotation that keeps the
\* chart: with a finalizer on it the object is only marked.
UserDeletes(a, uninstall) ==
    /\ apps[a].exists /\ ~apps[a].deleting
    /\ apps' = [apps EXCEPT ![a] = IF @.finalizers = <<>> THEN NoApp
                                    ELSE [@ EXCEPT !.deleting = TRUE,
                                                   !.uninstall = uninstall]]
    /\ UNCHANGED <<CancelMap, watchers, frameworks, charts, podCheck, hpaCall, inflight>>

Next ==
    \/ \E a \in AppNames : \E in \in TakenInputs(a) : ReconcilePass(a, in)
    \/ \E a \in AppNames : \E canary \in BOOLEAN : UserDeploys(a, canary)
    \/ \E a \in AppNames : UserSetsCanary(a)
    \/ \E a \in AppNames : \E uninstall \in BOOLEAN : UserDeletes(a, uninstall)

Spec == Init /\ [][Next]_vars

\* ------------------------------------------------- two frameworks to choose
\* Both frameworks are there and linked, each with a member of its own; the
\* application names f1 and may be moved to the other framework.
InitMembership ==
    /\ CancelMap = [entries |-> [k \in Keys |-> NoEntry], nextGen |-> 1]
    /\ watchers = <<>>
    /\ apps = [a \in AppNames |->
                 IF a = "a1" THEN NewApp("f1", <<AppDeployment(1, <<"web">>)>>)
                 ELSE NoApp]
    /\ frameworks \in
          { [f \in FrameworkNames |-> IF f = "f1" THEN fw1 ELSE fw2] :
              fw1 \in { NewFramework(TRUE, NoQuota, <<"b1">>),
                        NewFramework(TRUE, Quota(2), <<"b1">>) },
              fw2 \in { NewFramework(TRUE, NoQuota, <<>>),
                        NewFramework(TRUE, Quota(1), <<"b2">>) } }
    /\ charts = [a \in AppNames |-> NoChart]
    /\ podCheck = NoCheck
    /\ hpaCall = NoHpaCall
    /\ inflight = NoneInFlight

\* The user edits Spec.Framework of the App.
UserChangesFramework(a, f) ==
    /\ apps[a].exists /\ ~apps[a].deleting
    /\ apps[a].framework # f
    /\ apps' = [apps EXCEPT ![a].framework = f]
    /\ UNCHANGED <<CancelMap, watchers, frameworks, charts, podCheck, hpaCall, inflight>>

NextMembership ==
    \/ \E a \in AppNames : \E in \in TakenInputs(a) : ReconcilePass(a, in)
    \/ \E a \in AppNames : \E f \in FrameworkNames : UserChangesFramework(a, f)
    \/ \E a \in AppNames : \E uninstall \in BOOLEAN : UserDeletes(a, uninstall)

SpecMembership == InitMembership /\ [][NextMembership]_vars

\* ------------------------------------------------------- three deployments
\* The application has canary off and either no deployment yet or two of
\* them; the user may edit the App to add a deployment while a canary
\* rollout is under way or to start one.
InitRollouts ==
    /\ CancelMap = [entries |-> [k \in Keys |-> NoEntry], nextGen |-> 1]
    /\ watchers = <<>>
    /\ apps \in { [a \in AppNames |-> IF a = "a1" THEN NewApp("f1", ds) ELSE NoApp] :
                    ds \in { <<>>,
                             <<AppDeployment(1, <<"web">>), AppDeployment(2, <<"web">>)>> } }
    /\ frameworks = OneFramework(NewFramework(TRUE, NoQuota, <<>>))
    /\ charts = [a \in AppNames |-> NoChart]
    /\ podCheck = NoCheck
    /\ hpaCall = NoHpaCall
    /\ inflight = NoneInFlight

\* The user appends a deployment to Spec.Deployments, with or without
\* turning canary on: nothing in the controller limits the list to two.
UserAddsDeployment(a, canary) ==
    /\ apps[a].exists /\ ~apps[a].deleting
    /\ apps[a].deployments # <<>>
    /\ apps[a].deployments[Len(apps[a].deployments)].version + 1 \in Versions
    /\ Len(apps[a].deployments) < MaxDeployments
    /\ apps' = [apps EXCEPT
                  ![a].deployments =
                      Append(@, AppDeployment(@[Len(@)].version + 1, <<"web">>)),
                  ![a].canary = IF canary THEN [active |-> TRUE, started |-> 0, step |-> 0]
                                ELSE @]
    /\ UNCHANGED <<CancelMap, watchers, frameworks, charts, podCheck, hpaCall, inflight>>

NextRollouts ==
    \/ \E a \in AppNames : \E in \in TakenInputs(a) : ReconcilePass(a, in)
    \/ \E a \in AppNames : \E canary \in BOOLEAN : UserAddsDeployment(a, canary)

SpecRollouts == InitRollouts /\ [][NextRollouts]_vars

\* --------------------------------------------------- calls of checkPodStatus
\* The pods a listing goes through: at most MaxPods of them.
MaxPods == 3

PodPhases == {PodRunning, PodSucceeded, PodPending}

PodConditions ==
    {<<>>, <<ConditionTrue>>, <<ConditionFalse>>, <<ConditionTrue, ConditionFalse>>}

\* The pods of version 1 of application a1, and a pod of another version.
PodKinds ==
    { Pod("a1", 1, ph, cs) : ph \in PodPhases, cs \in PodConditions }
    \cup { Pod("a1", 2, PodPending, <<ConditionFalse>>) }

PodStores == UNION { [1..n -> PodKinds] : n \in 0..MaxPods }

\* The calls: with proper arguments and a listing that answers, over every
\* pod store; with an empty name, a version of 0 or a listing that fails,
\* over the stores of at most one pod.
PodChecks ==
    { [appName |-> "a1", depVersion |-> 1, store |-> st, listOk |-> TRUE, answer |-> ""] :
        st \in PodStores }
    \cup
    { [appName |-> n, depVersion |-> v, store |-> st, listOk |-> ok, answer |-> ""] :
        n \in {"", "a1"}, v \in {0, 1}, ok \in BOOLEAN,
        st \in { x \in PodStores : Len(x) <= 1 } }

InitPods ==
    /\ CancelMap = [entries |-> [k \in Keys |-> NoEntry], nextGen |-> 1]
    /\ watchers = <<>>
    /\ apps = [a \in AppNames |-> NoApp]
    /\ frameworks = [f \in FrameworkNames |-> NoFramework]
    /\ charts = [a \in AppNames |-> NoChart]
    /\ podCheck \in PodChecks
    /\ hpaCall = NoHpaCall
    /\ inflight = NoneInFlight

\* The call returns.
CheckPodStatusReturns ==
    /\ podCheck.answer = ""
    /\ podCheck' = [podCheck EXCEPT !.answer =
                       checkPodStatus(podCheck.store, podCheck.listOk,
                                      podCheck.appName, podCheck.depVersion)]
    /\ UNCHANGED <<CancelMap, watchers, apps, frameworks, charts, hpaCall, inflight>>

NextPods == CheckPodStatusReturns

SpecPods == InitPods /\ [][NextPods]_vars

\* --------------------------------------------------- calls of hpaTargetMap
\* Largest number of autoscalers the listing of the namespace answers.
MaxHPAs == 2

\* spec.scaleTargetRef of a HorizontalPodAutoscaler.
ScaleTargetRef(name, kind, apiVersion) ==
    [name |-> name, kind |-> kind, apiVersion |-> apiVersion]

\* The autoscalers of the namespace: on workloads of application a1 and of
\* another application, on a Deployment or on a StatefulSet of that name, in
\* apps/v1 or in an older API group.
ScaleTargets ==
    { ScaleTargetRef(n, k, v) :
        n \in { DeploymentName("a1", "web", 1), DeploymentName("a1", "worker", 1),
                DeploymentName("a1", "web", 2), DeploymentName("a2", "web", 1) },
        k \in {"Deployment", "StatefulSet"},
        v \in {"apps/v1", "extensions/v1beta1"} }

\* hpaList.Items, in the order of the listing.
HPALists == UNION { [1..n -> ScaleTargets] : n \in 0..MaxHPAs }

\* app.Spec.Deployments of the App the canary step is made for.
HpaDeployments ==
    { <<>>,
      <<AppDeployment(1, <<"web", "worker">>)>>,
      <<AppDeployment(1, <<"web">>), AppDeployment(2, <<"web", "worker">>)>> }

\* Lines 182-202. targets keeps one reference per target name, the one of
\* the last item of that name; a process is in the answer if the name of
\* one of its workloads is a key of targets whose reference is an apps/v1
\* Deployment.
hpaTargetMap(appName, deployments, hpaList) ==
    LET names == { hpaList[i].name : i \in DOMAIN hpaList }
        last(n) == CHOOSE i \in DOMAIN hpaList :
                      /\ hpaList[i].name = n
                      /\ \A j \in DOMAIN hpaList : hpaList[j].name = n => j <= i
        targets == [n \in names |-> hpaList[last(n)]]
    IN { p \in ProcessNames :
           \E d \in DOMAIN deployments : \E k \in DOMAIN deployments[d].processes :
              LET deploymentName == DeploymentName(appName, p, deployments[d].version)
              IN /\ deployments[d].processes[k] = p
                 /\ deploymentName \in DOMAIN targets
                 /\ targets[deploymentName].kind = "Deployment"
                 /\ targets[deploymentName].apiVersion = "apps/v1" }

\* The canary branch has listed the autoscalers of the namespace.
InitHPA ==
    /\ CancelMap = [entries |-> [k \in Keys |-> NoEntry], nextGen |-> 1]
    /\ watchers = <<>>
    /\ apps = [a \in AppNames |-> NoApp]
    /\ frameworks = [f \in FrameworkNames |-> NoFramework]
    /\ charts = [a \in AppNames |-> NoChart]
    /\ podCheck = NoCheck
    /\ hpaCall \in { [appName |-> "a1", deployments |-> ds, hpaList |-> l,
                       returned |-> FALSE, hpaTargets |-> {}] :
                        ds \in HpaDeployments, l \in HPALists }
    /\ inflight = NoneInFlight

\* Line 317: hpaTargetMap(app, hpaList) is handed to app.DoCanary.
HpaTargetMapReturns ==
    /\ ~hpaCall.returned
    /\ hpaCall' = [hpaCall EXCEPT
                      !.returned = TRUE,
                      !.hpaTargets = hpaTargetMap(hpaCall.appName, hpaCall.deployments,
                                                  hpaCall.hpaList)]
    /\ UNCHANGED <<CancelMap, watchers, apps, frameworks, charts, podCheck, inflight>>

NextHPA == HpaTargetMapReturns

SpecHPA == InitHPA /\ [][NextHPA]_vars

\* ---------------------------------------------------- passes that overlap
\* Two applications ask for framework f1; neither is a member and the quota
\* leaves room for one of them.
InitConcurrent ==
    /\ CancelMap = [entries |-> [k \in Keys |-> NoEntry], nextGen |-> 1]
    /\ watchers = <<>>
    /\ apps = [a \in AppNames |-> NewApp("f1", <<AppDeployment(1, <<"web">>)>>)]
    /\ frameworks \in { OneFramework(NewFramework(TRUE, Quota(1), <<>>)),
                         OneFramework(NewFramework(TRUE, Quota(2), <<"b1">>)) }
    /\ charts = [a \in AppNames |-> NoChart]
    /\ podCheck = NoCheck
    /\ hpaCall = NoHpaCall
    /\ inflight = NoneInFlight

\* Line 230: the pass for application a reads the Framework. The steps of
\* the pass before it touch the App of the pass only and are taken with the
\* rest of the pass. The queue never runs two passes for one key.
ReconcileGetsFramework(a) ==
    /\ apps[a].exists
    /\ ~inflight[a].reading
    /\ inflight' = [inflight EXCEPT ![a] = [reading |-> TRUE, frameworks |-> frameworks]]
    /\ UNCHANGED <<CancelMap, watchers, apps, frameworks, charts, podCheck, hpaCall>>

\* Lines 268-269: Status().Patch with client.MergeFrom(&framework) sends the
\* difference between the Framework as read and the patched copy, a merge
\* patch that carries status.apps whole and no resource version: the list
\* of the copy replaces the list in the store.
MergePatch(fs, patched, f) == [fs EXCEPT ![f].apps = patched[f].apps]

\* The pass for application a goes on from the Framework it has read and
\* runs to its end.
ReconcileFinishes(a, in) ==
    \E r \in { Reconcile(CancelMap, watchers, apps, inflight[a].frameworks, charts, a, in) } :
       /\ inflight[a].reading
       /\ Used(in, r)
       /\ Len(r.ws) <= MaxWatchers
       /\ CancelMap' = r.cm
       /\ watchers' = r.ws
       /\ apps' = r.apps
       /\ frameworks' = IF \E i \in DOMAIN r.pass.ops : r.pass.ops[i].op = "patchFramework"
                        THEN MergePatch(frameworks, r.frameworks, apps[a].framework)
                        ELSE frameworks
       /\ charts' = r.charts
       /\ inflight' = [inflight EXCEPT ![a] = NoRead]
       /\ UNCHANGED <<podCheck, hpaCall>>

NextConcurrent ==
    \/ \E a \in AppNames : ReconcileGetsFramework(a)
    \/ \E a \in AppNames : \E in \in TakenInputs(a) : ReconcileFinishes(a, in)

SpecConcurrent == InitConcurrent /\ [][NextConcurrent]_vars

\* ------------------------------------------------------------------ claims
KeyOf(w) == watchers[w].dep.name

KeyWatchers(k) == { w \in DOMAIN watchers : KeyOf(w) = k }

Live(w) == Running(watchers[w]) /\ ~watchers[w].ctxCancelled

HasEvent(evs, reason) == \E i \in DOMAIN evs : evs[i].reason = reason

\* C1: for every workload key at most one running watcher has an
\* un-cancelled context, and once a later watcher has been started for a key
\* every earlier watcher of that key has had its cancel function invoked,
\* unless it had returned and removed its own entry before.
C1_SingleLiveWatcher ==
    /\ \A k \in Keys : Cardinality({ w \in KeyWatchers(k) : Live(w) }) <= 1
    /\ \A w1, w2 \in DOMAIN watchers :
         (w1 < w2 /\ KeyOf(w1) = KeyOf(w2))
             => (watchers[w1].ctxCancelled \/ watchers[w1].cleaned = "removed")

\* C1 witness: a superseded watcher, cancelled and still running, beside its
\* live successor for the same key.
C1_Witness ==
    \E w1, w2 \in DOMAIN watchers :
        /\ w1 < w2 /\ KeyOf(w1) = KeyOf(w2)
        /\ Running(watchers[w1]) /\ watchers[w1].ctxCancelled
        /\ Live(w2)

\* The last element of a non-empty set of watcher numbers.
Latest(S) == CHOOSE w \in S : \A v \in S : v <= w

\* C2: after N >= 1 registrations for a key and no removal of an entry of that
\* key in between, exactly one handle is live, the one registered last, and
\* each of the N-1 earlier handles has been invoked exactly once; no handle
\* is ever invoked twice.
C2_OneLiveHandleAfterNCalls ==
    /\ \A w \in DOMAIN watchers : watchers[w].cancelCalls <= 1
    /\ \A k \in Keys :
         (KeyWatchers(k) # {} /\ \A w \in KeyWatchers(k) : watchers[w].cleaned # "removed")
             => /\ CancelMap.entries[k].cancel = Latest(KeyWatchers(k))
                /\ \A w \in KeyWatchers(k) :
                     IF w = Latest(KeyWatchers(k))
                     THEN ~watchers[w].ctxCancelled /\ watchers[w].cancelCalls = 0
                     ELSE watchers[w].ctxCancelled /\ watchers[w].cancelCalls = 1

\* C2 witness: three registrations for one key, nothing removed: the first
\* two handles invoked once each, the third live.
C2_Witness ==
    \E k \in Keys :
        /\ Cardinality(KeyWatchers(k)) = 3
        /\ \A w \in KeyWatchers(k) : watchers[w].cleaned # "removed"
        /\ Cardinality({ w \in KeyWatchers(k) : watchers[w].cancelCalls = 1 }) = 2

\* C3: a running watcher whose context is not cancelled is the one
\* registered for its key, whatever cleanups of superseded watchers have
\* run; and a watcher's return changes the registry only by removing the
\* entry of its own registration: if another watcher's handle is registered
\* for the key the registry is left as it is.
C3_StaleCleanupSafe ==
    /\ \A w \in DOMAIN watchers : Live(w) => CancelMap.entries[KeyOf(w)].cancel = w
    /\ \A w \in DOMAIN watchers : \A r \in WatcherSteps(w) :
         IF CancelMap.entries[KeyOf(w)].cancel = w /\ ~Running(r.w)
         THEN r.cm.entries = [CancelMap.entries EXCEPT ![KeyOf(w)] = NoEntry]
         ELSE r.cm = CancelMap

\* C3 witness: watcher 1 was superseded, has returned and run its cleanup,
\* and the entry of its successor is still registered.
C3_Witness ==
    \E w1, w2 \in DOMAIN watchers :
        /\ w1 < w2 /\ KeyOf(w1) = KeyOf(w2)
        /\ watchers[w1].cleaned = "stale"
        /\ Live(w2) /\ CancelMap.entries[KeyOf(w2)].cancel = w2

\* C4 as claimed: a watcher whose cancellation signal has been raised emits
\* no event in any step it takes from then on.
C4_NoEventAfterCancel ==
    \A w \in DOMAIN watchers :
        watchers[w].ctxCancelled => \A r \in WatcherSteps(w) : r.events = <<>>

\* C4 amended: the cancellation case of the wait is available to every
\* parked watcher whose signal has been raised, it returns at once and
\* records no event, and such a watcher never takes the poll tick.
C4_CancelCaseSilent ==
    \A w \in DOMAIN watchers :
        (watchers[w].pc = "wait" /\ watchers[w].ctxCancelled)
            => /\ CancelledSteps(w) # {}
               /\ \A r \in CancelledSteps(w) : r.events = <<>> /\ r.w.pc = "cancelled"
               /\ TickSteps(w) = {}

\* C4 witness: a watcher has left through the cancellation case.
C4_Witness ==
    \E w \in DOMAIN watchers : watchers[w].pc = "cancelled" /\ watchers[w].ctxCancelled

\* The counts the completion claim speaks of, on workload dep for a watcher
\* that wants spec replicas.
AllEqualDesired(dep, spec) ==
    /\ dep.updatedReplicas = spec
    /\ dep.updatedReplicas - dep.unavailableReplicas = spec
    /\ dep.replicas = spec

\* C5: a watcher is Terminal-Complete (and has emitted AppReconcileComplete)
\* only on a workload whose updated replicas, ready units and total replicas
\* all equal the desired count; a step whose workload has all units updated
\* but one unavailable does not complete.
C5_CompleteOnlyWhenAllEqual ==
    /\ \A w \in DOMAIN watchers :
         watchers[w].pc = "complete"
             => AllEqualDesired(watchers[w].dep, watchers[w].specReplicas)
    /\ \A w \in DOMAIN watchers : \A r \in WatcherSteps(w) :
         /\ HasEvent(r.events, AppReconcileComplete) <=> r.w.pc = "complete"
         /\ r.w.pc = "complete" => AllEqualDesired(r.w.dep, r.w.specReplicas)
         /\ (r.w.dep.updatedReplicas = r.w.specReplicas /\ r.w.dep.unavailableReplicas >= 1)
                => r.w.pc # "complete"

\* C5 witness: a watcher completed a rollout of at least one replica after
\* it had waited with all units updated and one of them unavailable.
C5_Witness ==
    \E w \in DOMAIN watchers :
        /\ watchers[w].pc = "wait" /\ watchers[w].specReplicas >= 1
        /\ watchers[w].dep.updatedReplicas = watchers[w].specReplicas
        /\ watchers[w].dep.unavailableReplicas >= 1
        /\ \E r \in WatcherSteps(w) : r.w.pc = "complete"

\* ------------------------------------------------- claims on the reconciler
\* The pass over application a with input in, from the present state, and
\* the pass that follows a pass r with nothing in between.
PassOf(a, in) == Reconcile(CancelMap, watchers, apps, frameworks, charts, a, in)

SecondPass(r, a, in) == Reconcile(r.cm, r.ws, r.apps, r.frameworks, r.charts, a, in)

LiveApps == { a \in AppNames : apps[a].exists /\ ~apps[a].deleting }

Count(seq, x) == Cardinality({ i \in DOMAIN seq : seq[i] = x })

HasOp(ops, names) == \E i \in DOMAIN ops : ops[i].op \in names

OutcomeEvents(evs) == SelectSeq(evs, LAMBDA e : e.reason = AppReconcileOutcomeReason)

NotFoundError == NewError("framework is not found")
NotLinkedError == NewError("framework is not linked to a kubernetes namespace")
QuotaError == NewError("you have reached the limit of apps")

\* The pass gets as far as the quota test: the App is read, the finalizer
\* is on it, and the reference and the templates are read.
ReachesQuotaTest(a, in) ==
    /\ in.fault.site \notin {"getApp", "getFramework", "getReference", "templates"}
    /\ in.fault.site = "updateFinalizer" => ContainsFinalizer(apps[a], KetchFinalizer)

\* The conditions of the quota rule, read off the framework in the store.
OverQuota(a) ==
    LET framework == frameworks[apps[a].framework]
    IN /\ Count(framework.apps, a) = 0
       /\ framework.quota.set
       /\ framework.quota.limit # -1
       /\ Len(framework.apps) >= framework.quota.limit

\* C7: with the framework resolved and linked to a namespace, a pass that
\* gets to the quota test is rejected with the quota error if and only if
\* the application is not a member, a limit is set, the limit is not -1 and
\* the member count is at least the limit; a member is never rejected.
C7_QuotaRejectsIff ==
    \A a \in LiveApps : \A in \in Inputs(a) :
        LET r == PassOf(a, in)
            framework == GetFramework(frameworks, apps[a].framework)
        IN Used(in, r) /\ framework.exists /\ framework.linked /\ ReachesQuotaTest(a, in) =>
              /\ (r.pass.scheduleErr = QuotaError) <=> OverQuota(a)
              /\ Count(framework.apps, a) > 0 => r.pass.scheduleErr # QuotaError

\* A framework with quota 2 and two members has rejected a third
\* application: the quota error is in its status and it is not a member.
C7_Witness ==
    /\ frameworks["f1"].quota = Quota(2)
    /\ frameworks["f1"].apps = <<"b1", "b2">>
    /\ apps["a1"].exists
    /\ ScheduledCondition(apps["a1"]) =
          [status |-> ConditionFalse, message |-> ErrorString(QuotaError)]

ReachedStatusUpdate(r) == r.pass.path \in {"done", "statusConflict", "statusError"}

\* Two passes in a row over application a, with the same input and nothing
\* in between, agree: the second hands the same outcome to the status
\* update and leaves the same status in the store; past the finalizer step
\* the App carries the finalizer once; the name is never twice in the member
\* list, and is there once when the second pass succeeded.
SecondPassAgrees(a, r1, r2) ==
    LET framework == GetFramework(r2.frameworks, r2.apps[a].framework)
    IN /\ r2.pass.outcome = r1.pass.outcome
       /\ r2.apps[a].status = r1.apps[a].status
       /\ r2.pass.path \notin {"getError", "finalizerError"} =>
             Count(r2.apps[a].finalizers, KetchFinalizer) = 1
       /\ Count(framework.apps, a) <= 1
       /\ ReachedStatusUpdate(r2) /\ r2.pass.scheduleErr = NilErr =>
             Count(framework.apps, a) = 1

ReferenceErrorOf(a, in) ==
    LET framework == GetFramework(frameworks, apps[a].framework)
    IN IF ~framework.exists THEN NotFoundError
       ELSE IF in.fault.site \in {"getFramework", "getReference"} THEN NilErr
       ELSE IF ~framework.linked THEN NotLinkedError
       ELSE IF in.fault.site = "templates" THEN NilErr
       ELSE IF OverQuota(a) THEN QuotaError
       ELSE NilErr

\* The pass gets as far as reconcile: the App is read and the finalizer is
\* on it.
ReachesReconcile(a, in) ==
    /\ in.fault.site # "getApp"
    /\ in.fault.site = "updateFinalizer" => ContainsFinalizer(apps[a], KetchFinalizer)

\* C8: a pass that finds the framework missing, not linked to a namespace,
\* or the application over the quota fails with that reference error: it
\* records a Warning outcome event with the message, hands condition
\* Scheduled=False with the message to the status update (which stores it
\* unless the update itself fails), and makes no membership patch, applies
\* no chart, takes no canary step and starts no watcher.
C8_ReferenceErrorSurfaced ==
    \A a \in LiveApps : \A in \in Inputs(a) :
        LET r == PassOf(a, in)
            err == ReferenceErrorOf(a, in)
        IN Used(in, r) /\ ReachesReconcile(a, in) /\ err # NilErr =>
              /\ r.pass.scheduleErr = err
              /\ OutcomeEvents(r.pass.events)[1] =
                    Event(Warning, AppReconcileOutcomeReason, ErrorString(err))
              /\ r.pass.outcome.status = ConditionFalse
              /\ r.pass.outcome.message = ErrorString(err)
              /\ r.pass.path = "done" =>
                    ScheduledCondition(r.apps[a]) =
                        [status |-> ConditionFalse, message |-> ErrorString(err)]
              /\ ~HasOp(r.pass.ops, {"patchFramework", "updateChart", "rollback",
                                     "doCanary", "watch"})
              /\ r.frameworks = frameworks
              /\ r.charts = charts
              /\ r.ws = watchers
              /\ r.cm = CancelMap

\* A pass over an application with canary on has found its framework not
\* linked to a namespace: the condition is stored, the application is not a
\* member, has no chart and no watcher, and its canary has not moved.
C8_Witness ==
    /\ frameworks["f1"].exists /\ ~frameworks["f1"].linked
    /\ ~HasApp(frameworks["f1"], "a1")
    /\ apps["a1"].exists /\ apps["a1"].canary.active /\ apps["a1"].canary.step = 0
    /\ Len(apps["a1"].deployments) = 2
    /\ ScheduledCondition(apps["a1"]) =
          [status |-> ConditionFalse, message |-> ErrorString(NotLinkedError)]
    /\ ~charts["a1"].installed
    /\ watchers = <<>>

\* C9, as claimed: every pass over an existing App that is not being
\* deleted and that gets to the status update records exactly one outcome
\* event.
C9_ExactlyOneOutcomeEvent ==
    \A a \in LiveApps : \A in \in Inputs(a) :
        LET r == PassOf(a, in)
        IN Used(in, r) /\ ReachedStatusUpdate(r) =>
              Len(OutcomeEvents(r.pass.events)) = 1

\* C9, amended: every such pass records exactly one outcome event before
\* the status update: Normal, with Scheduled=True and the framework
\* reference, if reconcile succeeded; Warning, with Scheduled=False and the
\* error message, if it failed. A second outcome event, a Warning with the
\* error of the update, follows exactly when the status update fails with
\* an error that is not a conflict.
C9_OneOutcomeEventBeforeStatusUpdate ==
    \A a \in LiveApps : \A in \in Inputs(a) :
        LET r == PassOf(a, in)
            evs == OutcomeEvents(r.pass.events)
            err == r.pass.scheduleErr
        IN Used(in, r) /\ ReachedStatusUpdate(r) =>
              /\ Len(evs) = IF r.pass.path = "statusError" THEN 2 ELSE 1
              /\ err = NilErr =>
                    /\ evs[1].type = Normal
                    /\ r.pass.outcome =
                          [status |-> ConditionTrue, message |-> <<>>,
                           framework |-> GetReference(apps[a].framework)]
              /\ err # NilErr =>
                    /\ evs[1] = Event(Warning, AppReconcileOutcomeReason, ErrorString(err))
                    /\ r.pass.outcome.status = ConditionFalse
                    /\ r.pass.outcome.message = ErrorString(err)
              /\ r.pass.path = "statusError" =>
                    evs[2] = Event(Warning, AppReconcileOutcomeReason, ErrorString(r.pass.err))
              /\ r.pass.path = "done" => Outcome(r.apps[a]) = r.pass.outcome

\* In one state a pass can succeed and store Scheduled=True with the
\* framework reference, and a pass whose status update fails records two
\* outcome events; the application has been through a successful pass.
C9_Witness ==
    /\ "a1" \in LiveApps
    /\ Outcome(apps["a1"]) =
          [status |-> ConditionTrue, message |-> <<>>, framework |-> GetReference("f1")]
    /\ \E in \in Inputs("a1") :
          /\ in.fault = [site |-> "statusUpdate", kind |-> "error", at |-> 1]
          /\ PassOf("a1", in).pass.path = "statusError"
          /\ Len(OutcomeEvents(PassOf("a1", in).pass.events)) = 2
    /\ \E in \in Inputs("a1") :
          /\ PassOf("a1", in).pass.path = "done"
          /\ PassOf("a1", in).pass.scheduleErr # NilErr

\* Some layer of the chain is a conflict.
ConflictInChain(err) == \E i \in DOMAIN err : err[i].conflict

\* C10: a pass whose reconcile error is a conflict, or wraps one at any
\* depth, records no outcome event, attempts no status update and returns
\* that error; a pass whose status update is refused with a conflict
\* records no Warning for it: its one outcome event is that of reconcile.
C10_ConflictsNotSurfaced ==
    \A a \in LiveApps : \A in \in Inputs(a) :
        LET r == PassOf(a, in)
            evs == OutcomeEvents(r.pass.events)
        IN Used(in, r) =>
              /\ ConflictInChain(r.pass.scheduleErr) =>
                    /\ evs = <<>>
                    /\ ~HasOp(r.pass.ops, {"updateStatus"})
                    /\ r.apps[a].status = apps[a].status
                    /\ r.pass.err = r.pass.scheduleErr
                    /\ r.pass.requeue = ""
              /\ r.pass.path = "statusConflict" =>
                    /\ Len(evs) = 1
                    /\ evs[1].what = ErrorString(r.pass.scheduleErr)
                    /\ r.pass.scheduleErr = NilErr => evs[1].type = Normal
                    /\ r.apps[a].status = apps[a].status
                    /\ r.pass.err = ConflictErr

\* The chart of a member application is installed and a pass may run into
\* a conflict two layers down (the chart applier's error wrapping the
\* conflict, wrapped again by reconcile), or into a refused status update.
C10_Witness ==
    /\ "a1" \in LiveApps
    /\ HasApp(frameworks["f1"], "a1")
    /\ \E in \in Inputs("a1") :
          /\ Used(in, PassOf("a1", in))
          /\ Len(PassOf("a1", in).pass.scheduleErr) = 3
          /\ PassOf("a1", in).pass.scheduleErr[3].conflict
          /\ PassOf("a1", in).pass.path = "conflict"
    /\ \E in \in Inputs("a1") :
          /\ Used(in, PassOf("a1", in))
          /\ PassOf("a1", in).pass.path = "statusConflict"

\* ------------------------------------------------ claims on the delete path
DeletingApps == { a \in AppNames : apps[a].exists /\ apps[a].deleting }

UninstallSites == {"helmFactoryDelete", "deleteChart"}

\* C11: on the delete path, a pass in which the chart uninstall fails
\* (creating the Helm client, or DeleteChart) still takes the application
\* off the member list of its framework and removes the finalizer, so that
\* the object goes away.
C11_UninstallFailureStillRemovesFinalizer ==
    \A a \in DeletingApps : \A in \in Inputs(a) :
        LET r == PassOf(a, in)
        IN Used(in, r) /\ in.fault.site \in UninstallSites =>
              /\ \A f \in FrameworkNames : ~HasApp(r.frameworks[f], a)
              /\ ~(r.apps[a].exists /\ ContainsFinalizer(r.apps[a], KetchFinalizer))

\* C12: a pass over an App marked for deletion runs the delete path and
\* returns: it applies no chart, adds the application to no member list,
\* takes no canary step, starts no watcher, writes no status, records no
\* event and asks for no requeue.
C12_DeletePathOnly ==
    \A a \in DeletingApps : \A in \in Inputs(a) :
        LET r == PassOf(a, in)
        IN Used(in, r) =>
              /\ r.pass.path \in {"getError", "delete"}
              /\ ~HasOp(r.pass.ops, {"updateChart", "rollback", "doCanary", "watch",
                                     "updateStatus"})
              /\ \A f \in FrameworkNames :
                    Count(r.frameworks[f].apps, a) <= Count(frameworks[f].apps, a)
              /\ \A b \in AppNames : r.charts[b].installed => charts[b].installed
              /\ r.ws = watchers
              /\ r.cm = CancelMap
              /\ r.pass.events = <<>>
              /\ r.pass.outcome = NoOutcome
              /\ r.pass.requeue = ""
              /\ r.apps[a].exists =>
                    /\ r.apps[a].status = apps[a].status
                    /\ r.apps[a].canary = apps[a].canary
                    /\ r.apps[a].deployments = apps[a].deployments

\* An application that went through a successful pass (its watchers were
\* started) and a canary deployment was marked for deletion, and the delete
\* pass took it off the member list, removed its chart and let it go.
C12_Witness ==
    /\ ~apps["a1"].exists
    /\ watchers # <<>>
    /\ frameworks["f1"].exists
    /\ ~HasApp(frameworks["f1"], "a1")
    /\ ~charts["a1"].installed

\* The object store a pass leaves behind.
Store(r) == <<r.apps, r.frameworks, r.charts>>

IsMember(a) == \E f \in FrameworkNames : frameworks[f].exists /\ HasApp(frameworks[f], a)

Without(members, a) == SelectSeq(members, LAMBDA n : n # a)

\* C13: the delete path can be run again. A delete pass that follows a
\* delete pass that failed somewhere leaves the store as one successful
\* delete pass would have, and one more pass after a successful one changes
\* nothing; for an application in no member list the pass patches no
\* framework and deletes no chart, and only removes the finalizer; a member
\* list that is patched loses the application and nothing else, the other
\* members staying in order.
C13_DeletePathIdempotent ==
    \A a \in DeletingApps : \A in \in Inputs(a) :
        LET r1 == PassOf(a, in)
            r2 == SecondPass(r1, a, NoInput)
            once == PassOf(a, NoInput)
            again == SecondPass(once, a, NoInput)
        IN Used(in, r1) =>
              /\ Store(r2) = Store(once)
              /\ ~once.apps[a].exists
              /\ Store(again) = Store(once)
              /\ again.pass.ops = <<>>
              /\ ~IsMember(a) =>
                    /\ ~HasOp(r1.pass.ops, {"patchFramework", "deleteChart"})
                    /\ r1.frameworks = frameworks
                    /\ r1.charts = charts
                    /\ once.pass.ops = <<[op |-> "updateApp", arg |-> a]>>
              /\ \A f \in FrameworkNames :
                    /\ r1.frameworks[f].apps \in
                          {frameworks[f].apps, Without(frameworks[f].apps, a)}
                    /\ HasOp(r1.pass.ops, {"patchFramework"}) /\ HasApp(frameworks[f], a) =>
                          r1.frameworks[f].apps = Without(frameworks[f].apps, a)

\* A delete pass has removed the chart of a member application and then
\* failed to patch the member list: the application is still marked, still
\* a member next to another one, and the next delete pass goes through.
C13_Witness ==
    /\ "a1" \in DeletingApps
    /\ apps["a1"].uninstall
    /\ HasApp(frameworks["f1"], "a1")
    /\ Len(frameworks["f1"].apps) >= 2
    /\ watchers # <<>>
    /\ ~charts["a1"].installed
    /\ ~PassOf("a1", NoInput).apps["a1"].exists

\* ------------------------------------------------ claims on the canary step
CanaryApps ==
    { a \in LiveApps : apps[a].canary.active /\ Len(apps[a].deployments) >= 2 }

\* The pass gets as far as the canary branch: no reference error, and no
\* call before the branch fails.
ReachesCanary(a, in) ==
    /\ ReachesReconcile(a, in)
    /\ ReferenceErrorOf(a, in) = NilErr
    /\ in.fault.site \notin {"getFramework", "getReference", "templates", "chartNew",
                             "patchFramework", "helmFactory"}

\* The health check of the canary deployment, the second in the list.
CanaryHealth(a, in) ==
    checkPodStatus(in.pods.store, in.pods.listOk, a, apps[a].deployments[2].version)

\* C14: with canary on, at least two deployments, the canary pods not
\* healthy and the canary start older than the timeout, a pass that gets to
\* the canary branch and whose update of the rolled back App is not refused
\* leaves the stored App with canary off and without the canary deployment.
C14_RollbackOnTimeout ==
    \A a \in CanaryApps : \A in \in Inputs(a) :
        LET r == PassOf(a, in)
        IN /\ Used(in, r) /\ ReachesCanary(a, in)
           /\ CanaryHealth(a, in) # "ok"
           /\ in.now > apps[a].canary.started + reconcileTimeout
           /\ in.fault.site # "rollbackUpdate"
           => /\ HasOp(r.pass.ops, {"rollback"})
              /\ ~r.apps[a].canary.active
              /\ r.apps[a].deployments = <<apps[a].deployments[1]>>

\* A member application has canary on and two deployments, and a pass that
\* finds the canary pods pending past the timeout stores the rollback.
C14_Witness ==
    /\ "a1" \in CanaryApps
    /\ HasApp(frameworks["f1"], "a1")
    /\ \E in \in Inputs("a1") :
          /\ Used(in, PassOf("a1", in))
          /\ in.fault = NoFault
          /\ CanaryHealth("a1", in) = "all pods are not running"
          /\ in.now > apps["a1"].canary.started + reconcileTimeout
          /\ HasOp(PassOf("a1", in).pass.ops, {"rollback"})
          /\ PassOf("a1", in).apps["a1"].canary = NoCanary
          /\ Len(PassOf("a1", in).apps["a1"].deployments) = 1

\* C15: with canary on, the canary pods not healthy and the timeout since
\* the canary start not elapsed, a pass that gets to the canary branch fails
\* with the health check's error and moves nothing: no rollback, no canary
\* step, the stored spec of the App as before, no chart applied, no watcher
\* started; the caller is to come back after reconcileTimeout (or, where the
\* status update fails, is handed that error).
C15_NotHealthyNotExpiredNoAdvance ==
    \A a \in CanaryApps : \A in \in Inputs(a) :
        LET r == PassOf(a, in)
        IN /\ Used(in, r) /\ ReachesCanary(a, in)
           /\ CanaryHealth(a, in) # "ok"
           /\ in.now <= apps[a].canary.started + reconcileTimeout
           => /\ r.pass.scheduleErr =
                    Wrap("canary update failed", NewError(CanaryHealth(a, in)))
              /\ ~HasOp(r.pass.ops, {"rollback", "doCanary", "updateChart", "watch"})
              /\ r.apps[a].canary = apps[a].canary
              /\ r.apps[a].deployments = apps[a].deployments
              /\ r.apps[a].framework = apps[a].framework
              /\ r.charts = charts
              /\ r.ws = watchers
              /\ r.pass.err # NilErr
              /\ r.pass.path = "done" => r.pass.requeue = "reconcileTimeout"

\* A member application has canary on and two deployments, and a pass that
\* finds the canary pods pending on the last instant of the timeout is told
\* to come back and leaves the canary where it was.
C15_Witness ==
    /\ "a1" \in CanaryApps
    /\ HasApp(frameworks["f1"], "a1")
    /\ \E in \in Inputs("a1") :
          /\ Used(in, PassOf("a1", in))
          /\ in.fault = NoFault
          /\ CanaryHealth("a1", in) = "all pods are not running"
          /\ in.now = apps["a1"].canary.started + reconcileTimeout
          /\ PassOf("a1", in).pass.requeue = "reconcileTimeout"
          /\ PassOf("a1", in).apps["a1"].canary = apps["a1"].canary

InvalidCanaryApps ==
    { a \in LiveApps : apps[a].canary.active /\ Len(apps[a].deployments) < 2 }

\* C16: with canary on and fewer than two deployments, a pass that gets to
\* the canary branch fails with 'no canary deployment found', and once its
\* status update is through the stored App has canary off.
C16_InvalidCanaryReset ==
    \A a \in InvalidCanaryApps : \A in \in Inputs(a) :
        LET r == PassOf(a, in)
        IN Used(in, r) /\ ReachesCanary(a, in) =>
              /\ r.pass.scheduleErr = NewError("no canary deployment found")
              /\ r.pass.path = "done" => ~r.apps[a].canary.active

\* ------------------------------------------------- claims on checkPodStatus
\* The pods the call lists, and the health of one pod.
Listed == ListPods(podCheck.store, podCheck.appName, podCheck.depVersion)

RunningHealthy(pod) ==
    /\ pod.phase = PodRunning
    /\ \A i \in DOMAIN pod.conditions : pod.conditions[i] = ConditionTrue

NotReady == {"all pods are not running", "all pods are not in healthy state"}

\* C17: a call of checkPodStatus whose listing answers fails with the
\* invalid-arguments error if the name is empty or the version is not
\* positive; otherwise it succeeds if and only if some listed pod is
\* Succeeded or every listed pod is Running with all its conditions True,
\* and fails with a pods-not-ready error in every other case.
C17_HealthPredicate ==
    podCheck.answer # "" /\ podCheck.listOk =>
        IF podCheck.appName = "" \/ podCheck.depVersion <= 0
        THEN podCheck.answer = "invalid app specifications"
        ELSE IF \/ \E i \in DOMAIN Listed : Listed[i].phase = PodSucceeded
                \/ \A i \in DOMAIN Listed : RunningHealthy(Listed[i])
        THEN podCheck.answer = "ok"
        ELSE podCheck.answer \in NotReady

\* The store with the conditions of its Succeeded pods all True.
SucceededMadeHealthy(store) ==
    [i \in DOMAIN store |->
        IF store[i].phase = PodSucceeded
        THEN [store[i] EXCEPT !.conditions = [j \in DOMAIN @ |-> ConditionTrue]]
        ELSE store[i]]

\* C18: the conditions of a Succeeded pod count for nothing: the call
\* answers as it would with those conditions all True, answers success
\* where a Succeeded pod is reached, whatever its conditions, and fails on
\* conditions only where some Running pod has a condition that is not True.
C18_SucceededPodConditionsIgnored ==
    podCheck.answer # "" /\ podCheck.listOk /\ podCheck.appName # ""
            /\ podCheck.depVersion > 0 =>
        /\ podCheck.answer =
              checkPodStatus(SucceededMadeHealthy(podCheck.store), podCheck.listOk,
                             podCheck.appName, podCheck.depVersion)
        /\ \A i \in DOMAIN Listed :
              /\ Listed[i].phase = PodSucceeded
              /\ \A j \in 1..(i - 1) : RunningHealthy(Listed[j])
              => podCheck.answer = "ok"
        /\ podCheck.answer = "all pods are not in healthy state" =>
              \E i \in DOMAIN Listed :
                  Listed[i].phase = PodRunning /\ ~RunningHealthy(Listed[i])

\* A call has answered success for a listing of a healthy Running pod
\* followed by a Succeeded pod one of whose conditions is False.
C18_Witness ==
    /\ podCheck.answer = "ok"
    /\ Len(Listed) = 2
    /\ RunningHealthy(Listed[1])
    /\ Listed[2].phase = PodSucceeded
    /\ \E j \in DOMAIN Listed[2].conditions : Listed[2].conditions[j] = ConditionFalse

\* ---------------------------------------------------- claims on membership
Owners(a) == { f \in FrameworkNames : frameworks[f].exists /\ HasApp(frameworks[f], a) }

\* C19: whatever passes have run, also after the Framework reference of an
\* App was changed, the name of an application is in the member list of at
\* most one framework.
C19_MemberOfAtMostOneFramework ==
    \A a \in AppNames : Cardinality(Owners(a)) <= 1

\* ------------------------------------------------ claims on watcher starts
\* The watchers a pass r has started: those past the ones there before.
StartedBy(r) == SubSeq(r.ws, Len(watchers) + 1, Len(r.ws))

\* C20: a pass that succeeds and leaves canary off has started exactly one
\* watcher for each process of the most recent deployment, on the workload
\* of that process and version, each registered as the one live watcher of
\* its key, and none for a process of an older deployment; its outcome event
\* is Normal.
C20_OneWatcherPerLatestProcess ==
    \A a \in LiveApps : \A in \in Inputs(a) :
        LET r == PassOf(a, in)
            app == r.apps[a]
            latest == app.deployments[Len(app.deployments)]
            new == StartedBy(r)
        IN /\ Used(in, r) /\ ReachedStatusUpdate(r) /\ r.pass.scheduleErr = NilErr
           /\ ~app.canary.active /\ app.deployments # <<>>
           => /\ Len(new) = Len(latest.processes)
              /\ \A i \in DOMAIN new :
                    /\ new[i].processName = latest.processes[i]
                    /\ new[i].dep.name = DeploymentName(a, latest.processes[i], latest.version)
                    /\ new[i].app = [name |-> a, version |-> latest.version]
                    /\ Running(new[i]) /\ ~new[i].ctxCancelled
                    /\ r.cm.entries[new[i].dep.name].cancel = Len(watchers) + i
              /\ \A i \in 1..Len(watchers) : r.ws[i].dep = watchers[i].dep
              /\ OutcomeEvents(r.pass.events)[1].type = Normal

\* The scenario: an application with one deployment with the single process
\* web, under a linked framework with no quota limit, goes through a pass
\* with a Normal outcome event and exactly one watcher started, for web.
C20_Witness ==
    /\ "a1" \in LiveApps
    /\ ~apps["a1"].canary.active
    /\ Len(apps["a1"].deployments) = 1
    /\ apps["a1"].deployments[1].processes = <<"web">>
    /\ frameworks["f1"].linked
    /\ frameworks["f1"].quota \in {NoQuota, Quota(-1)}
    /\ PassOf("a1", NoInput).pass.path = "done"
    /\ PassOf("a1", NoInput).pass.scheduleErr = NilErr
    /\ OutcomeEvents(PassOf("a1", NoInput).pass.events) =
          <<Event(Normal, AppReconcileOutcomeReason, <<>>)>>
    /\ Len(StartedBy(PassOf("a1", NoInput))) = 1
    /\ StartedBy(PassOf("a1", NoInput))[1].processName = "web"

\* --------------------------------------------- claims on the ends of a pass
MissingApps == { a \in AppNames : ~apps[a].exists }

\* C21: a pass for a name with no App object returns no error and asks for
\* no requeue; it writes no App and no Framework, makes no chart operation,
\* records no event and starts no watcher.
C21_NotFoundIsNoOp ==
    \A a \in MissingApps :
        LET r == PassOf(a, NoInput)
        IN /\ r.pass.path = "notFound"
           /\ r.pass.err = NilErr
           /\ r.pass.requeue = ""
           /\ r.pass.ops = <<>>
           /\ r.pass.events = <<>>
           /\ Store(r) = <<apps, frameworks, charts>>
           /\ r.ws = watchers
           /\ r.cm = CancelMap

\* The application was reconciled (its watchers run), deleted and cleaned
\* up, and a further trigger for its name finds no object.
C21_Witness ==
    /\ "a1" \in MissingApps
    /\ watchers # <<>>
    /\ CancelMap.nextGen > 1
    /\ PassOf("a1", NoInput).pass.path = "notFound"

\* The pass stops at the canary health check: canary on, two deployments,
\* the canary pods not healthy and the timeout not elapsed.
StopsAtHealthCheck(a, in) ==
    /\ a \in CanaryApps
    /\ ReachesCanary(a, in)
    /\ CanaryHealth(a, in) # "ok"
    /\ in.now <= apps[a].canary.started + reconcileTimeout

C23_WatcherSnapshotNeverWritten ==
    \A w \in DOMAIN watchers : ~watchers[w].appOverwritten

\* --------------------------------------------- claims on the canary version
\* C24: with canary on and two or more deployments, a pass that gets to the
\* canary branch lists, for its health check, the pods of the newest
\* deployment version (the last entry of Spec.Deployments) and of no other.
C24_CanaryHealthOnNewestVersion ==
    \A a \in CanaryApps : \A in \in Inputs(a) :
        LET r == PassOf(a, in)
            newest == apps[a].deployments[Len(apps[a].deployments)]
        IN Used(in, r) /\ ReachesCanary(a, in) =>
              r.pass.checked = <<newest.version>>

\* ------------------------------------------------ claims on the watch loop
\* The steps of watcher w that go through the loop body: the entry into
\* watchFunc and the cases of the select that fall through to the Get.
LoopSteps(w) ==
    StartSteps(w) \cup TickSteps(w) \cup ClosedSteps(w)
        \cup UNION { MessageSteps(w, msg) : msg \in WatchMessages }

\* The workload carries the condition Progressing / ProgressDeadlineExceeded.
PastProgressDeadline(dep) ==
    \E c \in { dep.conditions[i] : i \in DOMAIN dep.conditions } :
        c = [type |-> "Progressing", reason |-> "ProgressDeadlineExceeded"]

DeadlineWarning == Event(Warning, AppReconcileError, "deadline exceeded")

\* The events the loop body records on the workload it looks at.
BodyEvents(evs) ==
    SelectSeq(evs, LAMBDA e : e.what \in {"units created", "waiting healthcheck",
                                          "units ready", "pending termination"})

\* C25: a pass over the loop body on a workload past its progress deadline
\* ends the watcher as failed with one Warning event, the last of the step,
\* and with no progress and no Complete event for that workload, whether or
\* not the workload is also complete.
C25_DeadlineExceededCheckedFirst ==
    \A w \in DOMAIN watchers : \A r \in LoopSteps(w) :
        PastProgressDeadline(r.w.dep) =>
            /\ r.w.pc = "failed"
            /\ ~r.w.stopped
            /\ r.events # <<>> /\ r.events[Len(r.events)] = DeadlineWarning
            /\ Len(SelectSeq(r.events, LAMBDA e : e.type = Warning)) = 1
            /\ BodyEvents(r.events) = <<>>
            /\ \A i \in DOMAIN r.events : r.events[i].reason # AppReconcileComplete

\* A watcher has failed on a workload past its progress deadline that was
\* complete as well, with all its units ready.
C25_Witness ==
    \E w \in DOMAIN watchers :
        /\ watchers[w].pc = "failed"
        /\ PastProgressDeadline(watchers[w].dep)
        /\ RolloutComplete(watchers[w].dep, watchers[w].specReplicas)
        /\ watchers[w].specReplicas > 0

\* ------------------------------------------- claims on watchDeployEvents
\* The calls of watchDeployEvents a pass may make in the current state: the
\* workload as the reconciler read it, what goes wrong, and, where the
\* generation wait runs to its end, the workload it read last.
CallsOn(p, dep) ==
    { [p |-> p, dep |-> dep, fault |-> fault, dep2 |-> dep] :
        fault \in IF dep.lag THEN WatchFaults \ {"none"}
                  ELSE WatchFaults \ {"getError", "genTimeout", "ctxDone"} }
    \cup
    { [p |-> p, dep |-> dep, fault |-> "none", dep2 |-> dep2] :
        dep2 \in IF dep.lag THEN { d \in ValidDeployments(dep.name) : ~d.lag } ELSE {} }

WatchCalls ==
    UNION { CallsOn(p, dep) :
              <<p, dep>> \in UNION { {p} \X ValidDeployments(
                                         DeploymentName(WatchedApp.name, p, WatchedApp.version)) :
                                     p \in ProcessNames } }

WatchCallOf(c) ==
    watchDeployEvents(CancelMap, watchers, WatchedApp, c.dep, c.p, c.fault, c.dep2)

GenerationTimeoutWarning == Event(Warning, AppReconcileError, "generation timeout")

\* C26: a call of watchDeployEvents that starts a watcher has seen the
\* observed generation of the workload caught up (at once, or at the end of
\* the wait), has cancelled the watcher registered for the workload before,
\* registered the new one, recorded the one event AppReconcileStarted and
\* handed the goroutine the workload read last; a call on a lagging workload
\* whose wait runs into the pod-running timeout records one Warning event
\* and returns the generation-timeout error, and like every call that
\* returns an error leaves the registry and all watchers as they were and
\* starts nothing.
C26_WaitGenerationOrdering ==
    \A c \in WatchCalls :
        LET r == WatchCallOf(c)
            prev == CancelMap.entries[c.dep.name]
            n == Len(watchers) + 1
        IN /\ c.dep.lag /\ c.fault = "genTimeout" =>
                /\ r.err = "timeout waiting for deployment generation to update"
                /\ r.events = <<GenerationTimeoutWarning>>
           /\ r.err # "" <=> r.started = 0
           /\ r.started = 0 => r.cm = CancelMap /\ r.ws = watchers
           /\ r.started # 0 =>
                /\ c.dep.lag => c.fault = "none"
                /\ r.started = n /\ Len(r.ws) = n
                /\ r.ws[n].dep = [c.dep2 EXCEPT !.lag = FALSE]
                /\ r.ws[n].pc = "start" /\ ~r.ws[n].ctxCancelled
                /\ r.cm.entries[c.dep.name].cancel = n
                /\ [r.cm.entries EXCEPT ![c.dep.name] = prev] = CancelMap.entries
                /\ prev # NoEntry => r.ws[prev.cancel].ctxCancelled
                /\ \A w \in DOMAIN watchers :
                      w # prev.cancel => r.ws[w] = watchers[w]
                /\ r.events = <<Event(Normal, AppReconcileStarted, "started")>>

\* A watcher is registered for a workload and runs with its context not
\* cancelled, after an earlier watcher of the workload was cancelled when it
\* was started: a call that times out on the generation leaves both alone.
C26_Witness ==
    \E c \in WatchCalls :
        LET prev == CancelMap.entries[c.dep.name]
        IN /\ c.dep.lag /\ c.fault = "genTimeout"
           /\ prev # NoEntry /\ Live(prev.cancel)
           /\ \E w \in DOMAIN watchers :
                 /\ w < prev.cancel /\ KeyOf(w) = c.dep.name
                 /\ watchers[w].ctxCancelled
           /\ WatchCallOf(c).ws = watchers

\* ---------------------------------------- claims on the health-check grace
\* The passes over the loop body watcher w can make next: the workload the
\* pass looks at, what the pod listing answers, and the outcome of the step.
BodyPasses(w) ==
    IF watchers[w].pc = "start"
    THEN { [dep |-> watchers[w].dep, pods |-> pods,
            r |-> LoopBody(CancelMap, watchers[w], <<>>, pods)] :
             pods \in PodAnswers }
    ELSE IF watchers[w].pc = "wait"
    THEN UNION { { [dep |-> fetched.dep, pods |-> pods,
                    r |-> Refetch(CancelMap, watchers[w], <<>>, fetched, pods)] :
                     pods \in PodAnswers } :
                 fetched \in { f \in Fetches(w) : f.ok } }
    ELSE {}

WaitingHealthcheck(evs) == Count(evs, Event(Normal, AppReconcileUpdate, "waiting healthcheck"))

\* C27: a pass over the loop body records the event 'waiting healthcheck'
\* and starts the grace timer exactly when the timer was not started before,
\* the workload is not past its progress deadline, its updated replicas
\* equal the desired count and checkPodStatus succeeds; it records the event
\* at most once, a started timer stays started as long as the watcher runs,
\* and no other step of the watcher records the event or starts the timer.
C27_HealthcheckGraceOnce ==
    \A w \in DOMAIN watchers :
        /\ \A b \in BodyPasses(w) :
              LET before == watchers[w].healthcheckTimeout
                  starts == /\ before = "nil"
                            /\ ~PastProgressDeadline(b.dep)
                            /\ b.dep.updatedReplicas = watchers[w].specReplicas
                            /\ checkPodStatus(b.pods.store, b.pods.listOk,
                                              watchers[w].app.name,
                                              watchers[w].app.version) = "ok"
              IN /\ WaitingHealthcheck(b.r.events) = (IF starts THEN 1 ELSE 0)
                 /\ Running(b.r.w) =>
                       (b.r.w.healthcheckTimeout = "armed" <=> starts \/ before = "armed")
        /\ \A r \in HealthcheckTimeoutSteps(w) \cup TimeoutSteps(w) \cup CancelledSteps(w) :
              WaitingHealthcheck(r.events) = 0 /\ ~Running(r.w)

\* A watcher waits with its grace timer started, on a workload with all
\* units updated whose pods may be found healthy again.
C27_Witness ==
    \E w \in DOMAIN watchers :
        /\ watchers[w].pc = "wait"
        /\ watchers[w].healthcheckTimeout = "armed"
        /\ \E b \in BodyPasses(w) :
              /\ b.dep.updatedReplicas = watchers[w].specReplicas
              /\ checkPodStatus(b.pods.store, b.pods.listOk, watchers[w].app.name,
                                watchers[w].app.version) = "ok"
              /\ Running(b.r.w)

\* --------------------------------------------- claims on the timer cases
\* The timer cases watcher w can take next, each with the pod listing its
\* diagnostic reads.
TimerCasesOf(w) ==
    (IF watchers[w].pc = "wait"
     THEN { [listing |-> l, label |-> "full rollout",
             c |-> TimerCase(CancelMap, watchers[w], l, "full rollout", "deployment timeout")] :
              l \in DiagListings }
     ELSE {})
    \cup
    (IF watchers[w].pc = "wait" /\ watchers[w].healthcheckTimeout = "armed"
     THEN { [listing |-> l, label |-> "healthcheck",
             c |-> TimerCase(CancelMap, watchers[w], l, "healthcheck",
                             "error waiting for healthcheck")] :
              l \in DiagListings }
     ELSE {})

\* The names of the listed pods of the watched version that have a
\* condition Ready with a status other than True.
NotReadyNames(w, listing) ==
    { listing.store[i].name :
        i \in { j \in DOMAIN listing.store :
                  /\ listing.store[j].app = watchers[w].app.name
                  /\ listing.store[j].version = watchers[w].app.version
                  /\ \E k \in DOMAIN listing.store[j].conditions :
                        listing.store[j].conditions[k] \in
                            { PodCondition("Ready", s) : s \in {"False", "Unknown"} } } }

\* The watcher ends failed with one event, a Warning that carries the error
\* the case returns, and without stopping on a Complete event.
FailsWithOneWarning(t) ==
    /\ t.c.exit.w.pc = "failed"
    /\ Len(t.c.exit.events) = 1
    /\ t.c.exit.events[1].type = Warning
    /\ t.c.exit.events[1].reason = AppReconcileError
    /\ t.c.exit.events[1].err = t.c.err

\* The error is the composite one: the timeout on the label of the case,
\* with one message for each not-ready pod listed.
AggregatedDiagnostic(w, t) ==
    /\ t.c.err.kind = "timeout waiting"
    /\ t.c.err.label = t.label
    /\ Len(t.c.err.messages) = Cardinality(NotReadyNames(w, t.listing))
    /\ { t.c.err.messages[i].pod : i \in DOMAIN t.c.err.messages }
           = NotReadyNames(w, t.listing)

\* C28: a watcher whose wait takes the case of the health-check timer or of
\* the overall timeout ends failed with exactly one event, a Warning whose
\* description carries the aggregated diagnostic (one message for each
\* listed pod with a Ready condition that is not True), and returns that
\* error; it records no Complete event.
C28_TimerFailureAggregatedDiagnostic ==
    \A w \in DOMAIN watchers : \A t \in TimerCasesOf(w) :
        FailsWithOneWarning(t) /\ AggregatedDiagnostic(w, t)

\* C28 as the code has it: the diagnostic is the aggregated one where the
\* listing of the pods answers; where the listing fails, the Warning carries
\* the error of the listing and the watcher returns that error.
C28_TimerFailureDiagnosticOrListError ==
    \A w \in DOMAIN watchers : \A t \in TimerCasesOf(w) :
        /\ FailsWithOneWarning(t)
        /\ t.listing.listOk => AggregatedDiagnostic(w, t)
        /\ ~t.listing.listOk => t.c.err.kind = "list error" /\ t.c.err.messages = <<>>

\* A watcher waits with its health-check timer started, so that either timer
\* may fire, and the listing then finds two pods that are not ready beside a
\* ready one and one with no Ready condition.
C28_Witness ==
    \E w \in DOMAIN watchers :
        /\ watchers[w].pc = "wait" /\ watchers[w].healthcheckTimeout = "armed"
        /\ \E t \in TimerCasesOf(w) :
              /\ t.label = "healthcheck" /\ t.listing.listOk
              /\ Len(t.listing.store) > 3
              /\ Len(t.c.err.messages) = 2
              /\ t.c.exit.w.pc = "failed"

\* ---------------------------------------------- claims on the event stream
CompleteEvent == Event(Normal, AppReconcileComplete, "complete")

\* C29: a step that ends the watcher complete records one Complete event,
\* the last of the step, and stops the event stream; and every watcher that
\* has returned, however it ended, has had its event stream stopped.
C29_StreamStoppedOnTermination ==
    \A w \in DOMAIN watchers :
        /\ \A r \in WatcherSteps(w) :
              r.w.pc = "complete" =>
                  /\ Count(r.events, CompleteEvent) = 1
                  /\ r.events[Len(r.events)] = CompleteEvent
                  /\ r.w.stopped
        /\ ~Running(watchers[w]) => watchers[w].stopped

\* ------------------------------------------- claims on the order of events
\* The terminal events of a watcher task: Complete, or a Warning with the
\* reason AppReconcileError.
TerminalEvents(evs) ==
    SelectSeq(evs, LAMBDA e : \/ e.reason = AppReconcileComplete
                              \/ e.type = Warning /\ e.reason = AppReconcileError)

\* C30: the event AppReconcileStarted is recorded by the call that starts
\* the watcher task, as its only event, and never by the task; a step of the
\* task records at most one terminal event, records it as the last event
\* of the step and with it the task returns; a step after which the task
\* runs on records none, and a task that has returned takes no step.
C30_EventsStrictlyOrdered ==
    /\ \A c \in WatchCalls :
          LET r == WatchCallOf(c)
          IN /\ r.started # 0 =>
                   /\ r.events = <<Event(Normal, AppReconcileStarted, "started")>>
                   /\ r.started \notin DOMAIN watchers
                   /\ r.ws[r.started].pc = "start"
             /\ r.started = 0 => ~HasEvent(r.events, AppReconcileStarted)
    /\ \A w \in DOMAIN watchers :
          /\ \A r \in WatcherSteps(w) :
                LET terminal == TerminalEvents(r.events)
                IN /\ ~HasEvent(r.events, AppReconcileStarted)
                   /\ Len(terminal) <= 1
                   /\ Len(terminal) = 1 => r.events[Len(r.events)] = terminal[1]
                   /\ Len(terminal) = 1 => ~Running(r.w)
                   /\ r.w.pc \in {"complete", "failed"} => Len(terminal) = 1
          /\ ~Running(watchers[w]) => WatcherSteps(w) = {}

\* Two watchers have returned, one complete and one failed, and neither has
\* a step left to take.
C30_Witness ==
    \E w1, w2 \in DOMAIN watchers :
        /\ watchers[w1].pc = "complete" /\ watchers[w2].pc = "failed"
        /\ WatcherSteps(w1) = {} /\ WatcherSteps(w2) = {}

\* ------------------------------------------------- claims on termination
\* C31: every watcher task returns in the end, given that goroutines run and
\* that the overall timeout fires and is taken; and a watcher whose event
\* stream has been closed is not blocked (the case of the closed channel is
\* ready and leads to the Get) and does not return because of the closure:
\* a step through that case ends the task only with a terminal event of the
\* pass over the loop body that follows.
C31_WatcherTerminates ==
    /\ \A w \in 1..MaxWatchers :
          (w \in DOMAIN watchers) ~> (w \in DOMAIN watchers /\ ~Running(watchers[w]))
    /\ [](\A w \in DOMAIN watchers :
             watchers[w].pc = "wait" /\ ~watchers[w].streamOpen =>
                 /\ ClosedSteps(w) # {}
                 /\ \A r \in ClosedSteps(w) :
                       ~Running(r.w) => Len(TerminalEvents(r.events)) = 1)

\* A watcher waits with its event stream closed and has a step through the
\* case of the closed channel after which it still runs.
C31_Witness ==
    \E w \in DOMAIN watchers :
        /\ watchers[w].pc = "wait" /\ ~watchers[w].streamOpen
        /\ \E r \in ClosedSteps(w) : Running(r.w)

\* -------------------------------------------------- claims on the finalizer
ExistingApps == { a \in AppNames : apps[a].exists }

Finalizers(app) == Count(app.finalizers, "theketch.io/finalizer")

\* C32: a pass over an existing App without the finalizer that reads the App
\* makes the update that stores the finalizer its first effect, and where
\* that update fails returns its error with nothing else done and nothing
\* stored, recorded or started; a pass over an App that has the finalizer
\* does not add it again: the stored App never carries it twice, and a pass
\* with canary off over an App not marked for deletion makes no update of
\* the App at all.
C32_FinalizerBeforeAnyMutation ==
    \A a \in ExistingApps : \A in \in Inputs(a) :
        LET r == PassOf(a, in)
            ops == r.pass.ops
        IN Used(in, r) /\ in.fault.site # "getApp" =>
              /\ Finalizers(r.apps[a]) <= 1
              /\ Finalizers(apps[a]) = 0 /\ in.fault.site # "updateFinalizer" =>
                    /\ ops # <<>> /\ ops[1] = [op |-> "updateApp", arg |-> a]
                    /\ r.apps[a].exists => Finalizers(r.apps[a]) = 1
              /\ Finalizers(apps[a]) = 0 /\ in.fault.site = "updateFinalizer" =>
                    /\ ops = <<>> /\ r.pass.events = <<>>
                    /\ r.pass.err = FaultErr([in |-> in])
                    /\ r.apps = apps /\ r.frameworks = frameworks /\ r.charts = charts
                    /\ r.ws = watchers /\ r.cm = CancelMap
              /\ Finalizers(apps[a]) = 1 /\ ~apps[a].deleting /\ ~apps[a].canary.active =>
                    ~HasOp(ops, {"updateApp"})

\* An App without the finalizer under a linked framework with room: the pass
\* stores the finalizer first and then patches the framework, applies the
\* chart and writes the status.
C32_Witness ==
    /\ "a1" \in ExistingApps /\ Finalizers(apps["a1"]) = 0
    /\ LET r == PassOf("a1", NoInput)
       IN /\ r.pass.ops[1] = [op |-> "updateApp", arg |-> "a1"]
          /\ HasOp(r.pass.ops, {"patchFramework"})
          /\ HasOp(r.pass.ops, {"updateChart"})
          /\ HasOp(r.pass.ops, {"updateStatus"})
          /\ Finalizers(r.apps["a1"]) = 1

\* ------------------------------------------------- claims on the re-queue
\* The pass ends with no error: reconcile succeeded and the status is stored.
Succeeds(r) == r.pass.path = "done" /\ r.pass.err = NilErr

\* C33: a pass starts watchers only with canary off after the canary step
\* and with a deployment to watch; a pass that succeeds with canary off and
\* at least one deployment asks for the re-queue after reconcileTimeout; a
\* pass that succeeds with canary off and no deployment starts no watcher
\* and asks for no re-queue.
C33_WatchersAndRequeue ==
    \A a \in LiveApps : \A in \in Inputs(a) :
        LET r == PassOf(a, in)
            app == r.apps[a]
        IN Used(in, r) =>
              /\ StartedBy(r) # <<>> \/ HasOp(r.pass.ops, {"watch"}) =>
                    ~app.canary.active /\ app.deployments # <<>>
              /\ app.canary.active => r.ws = watchers /\ r.cm = CancelMap
              /\ Succeeds(r) /\ ~app.canary.active /\ app.deployments # <<>> =>
                    r.pass.requeue = "reconcileTimeout"
              /\ Succeeds(r) /\ ~app.canary.active /\ app.deployments = <<>> =>
                    /\ r.ws = watchers /\ r.cm = CancelMap
                    /\ r.pass.requeue = ""

\* An App with no deployment and canary off goes through a pass that
\* succeeds: the chart is applied, no watcher is started and no re-queue
\* asked for.
C33_Witness ==
    /\ "a1" \in LiveApps /\ apps["a1"].deployments = <<>> /\ ~apps["a1"].canary.active
    /\ LET r == PassOf("a1", NoInput)
       IN /\ Succeeds(r) /\ HasOp(r.pass.ops, {"updateChart"})
          /\ r.ws = watchers /\ r.pass.requeue = ""

\* ------------------------------------------- claims on the HPA exclusion set
\* The processes of the App of a call with an apps/v1 Deployment autoscaler
\* in the listing on the workload of one of its deployments.
AutoscaledProcesses(call) ==
    { p \in ProcessNames :
        \E d \in DOMAIN call.deployments : \E k \in DOMAIN call.deployments[d].processes :
           /\ call.deployments[d].processes[k] = p
           /\ \E i \in DOMAIN call.hpaList :
                 call.hpaList[i] =
                    ScaleTargetRef(DeploymentName(call.appName, p, call.deployments[d].version),
                                   "Deployment", "apps/v1") }

\* C34: the exclusion set handed to the canary step holds every process of
\* the App that some autoscaler of the listing targets as an apps/v1
\* Deployment under the name of one of its workloads, and no other process.
C34_HpaExclusionSet ==
    hpaCall.returned => hpaCall.hpaTargets = AutoscaledProcesses(hpaCall)

\* ------------------------------------------------ claims on passes at once
\* The applications whose chart is applied.
Applied == { a \in AppNames : charts[a].installed }

\* C35: of two applications that are not members of a Framework with one
\* free slot, at most one gets its chart applied, also where their passes
\* overlap, and once the passes are over every application with a chart
\* applied is in the member list.
C35_QuotaHoldsUnderConcurrency ==
    /\ Cardinality(Applied) <= 1
    /\ inflight = NoneInFlight =>
          \A a \in Applied : Count(frameworks["f1"].apps, a) = 1

\* ----------------------------------------- claims on membership and chart
\* The steps of a pass after the membership patch that may fail.
LaterSites ==
    {"helmFactory", "rollbackUpdate", "listHPA", "doCanary", "canaryUpdate", "updateChart",
     "getDeployment", "watchDeployEvents"}

\* The pass calls UpdateChart, whether the call succeeds or fails.
InvokesUpdateChart(in, r) ==
    \/ HasOp(r.pass.ops, {"updateChart"})
    \/ in.fault.site = "updateChart" /\ r.hit

\* In the sequence of effects of a pass, the membership patch comes before
\* every chart application.
PatchedBeforeChart(ops) ==
    \A i \in DOMAIN ops : ops[i].op = "updateChart" =>
        \E j \in 1..(i - 1) : ops[j].op = "patchFramework"

\* C36: a pass that calls UpdateChart works on an App that is in the member
\* list of its Framework by then, from before the pass or by a patch of the
\* pass made before the call; and a pass that has added the App to the list
\* leaves it there, also where helm client creation, the canary step, the
\* chart application or a watcher start fails after the patch.
C36_MembershipBeforeChart ==
    \A a \in LiveApps : \A in \in Inputs(a) :
        LET r == PassOf(a, in)
            f == apps[a].framework
            before == frameworks[f].apps
            after == r.frameworks[f].apps
        IN Used(in, r) =>
              /\ InvokesUpdateChart(in, r) =>
                    /\ Count(after, a) = 1
                    /\ Count(before, a) = 0 =>
                          /\ HasOp(r.pass.ops, {"patchFramework"})
                          /\ PatchedBeforeChart(r.pass.ops)
              /\ HasOp(r.pass.ops, {"patchFramework"}) =>
                    /\ Count(before, a) = 0
                    /\ after = Append(before, a)
                    /\ in.fault.site \in LaterSites /\ r.hit =>
                          /\ r.pass.err # NilErr \/ r.pass.scheduleErr # NilErr
                          /\ ~HasOp(r.pass.ops, {"patchFrameworkDelete"})

\* A pass adds the App to the member list and then fails at the chart
\* application: the App stays in the list.
C36_Witness ==
    \E a \in LiveApps : \E in \in Inputs(a) :
        LET r == PassOf(a, in)
        IN /\ Used(in, r)
           /\ in.fault.site = "updateChart"
           /\ HasOp(r.pass.ops, {"patchFramework"})
           /\ Count(frameworks[apps[a].framework].apps, a) = 0
           /\ Count(r.frameworks[apps[a].framework].apps, a) = 1

\* ------------------------------------------- claims on the watcher's cleanup
\* The entry of the key of watcher w is the one w registered.
OwnEntry(w) ==
    /\ CancelMap.entries[KeyOf(w)] # NoEntry
    /\ CancelMap.entries[KeyOf(w)].gen = watchers[w].cleanup.gen

\* No later watcher was started for the key of watcher w.
NeverSuperseded(w) == \A w2 \in DOMAIN watchers : w2 > w => KeyOf(w2) # KeyOf(w)

\* C37: every step that ends a watcher, on whichever way out of watchFunc,
\* runs its cleanup, once: the entry the watcher registered is removed, or
\* the registry is left alone where the entry is another watcher's; a step
\* that leaves it running runs no cleanup, and a watcher that has returned
\* has no step left to run it again. Hence the registry has no entry for the
\* key of a watcher that has returned and was never superseded.
C37_CleanupOnEveryExit ==
    \A w \in DOMAIN watchers :
        /\ Running(watchers[w]) <=> watchers[w].cleaned = "no"
        /\ ~Running(watchers[w]) => WatcherSteps(w) = {}
        /\ \A r \in WatcherSteps(w) :
              IF Running(r.w)
              THEN r.w.cleaned = "no" /\ r.cm = CancelMap
              ELSE /\ r.w.pc \in {"complete", "failed", "cancelled"}
                   /\ r.w.cleaned = IF OwnEntry(w) THEN "removed" ELSE "stale"
                   /\ r.cm.entries = IF OwnEntry(w)
                                     THEN [CancelMap.entries EXCEPT ![KeyOf(w)] = NoEntry]
                                     ELSE CancelMap.entries
                   /\ r.cm.entries[KeyOf(w)] = NoEntry
                         \/ r.cm.entries[KeyOf(w)].gen # watchers[w].cleanup.gen
        /\ ~Running(watchers[w]) /\ NeverSuperseded(w) =>
              CancelMap.entries[KeyOf(w)] = NoEntry

\* A watcher that was never superseded has failed and its cleanup has
\* removed its entry; another one has returned superseded and left the entry
\* of its successor alone.
C37_Witness ==
    /\ \E w \in DOMAIN watchers :
          /\ watchers[w].pc = "failed" /\ NeverSuperseded(w)
          /\ watchers[w].cleaned = "removed"
          /\ CancelMap.entries[KeyOf(w)] = NoEntry
    /\ \E w \in DOMAIN watchers : watchers[w].pc = "cancelled" /\ watchers[w].cleaned = "stale"

\* --------------------------------------------- claims on the desired count
\* The steps of watcher w that go through the loop body on a workload that
\* may have been rescaled.
ScaleSteps(w) == StartSteps(w) \cup RescaledSteps(w)

\* C38: the desired count of a watcher is spec.replicas of the workload it
\* was started on and no step changes it, whatever spec.replicas the Get
\* answers later; the health-check gate opens only on an updated count equal
\* to it, and the watcher completes on a workload exactly when the ready
\* units and the replicas of that workload equal it.
C38_DesiredCountFixedAtStart ==
    \A w \in DOMAIN watchers :
        /\ watchers[w].pc = "start" => watchers[w].specReplicas = watchers[w].dep.specReplicas
        /\ \A r \in ScaleSteps(w) \cup WatcherSteps(w) :
              r.w.specReplicas = watchers[w].specReplicas
        /\ \A r \in ScaleSteps(w) :
              LET dep == r.w.dep
                  original == watchers[w].specReplicas
              IN /\ WaitingHealthcheck(r.events) > 0 => dep.updatedReplicas = original
                 /\ r.w.pc = "complete" <=>
                       /\ ~PastProgressDeadline(dep)
                       /\ dep.updatedReplicas - dep.unavailableReplicas = original
                       /\ dep.replicas = original

\* A watcher started on a workload with one desired replica has completed
\* on a workload rescaled to none, with one replica ready.
C38_Witness ==
    \E w \in DOMAIN watchers :
        /\ watchers[w].pc = "complete"
        /\ watchers[w].specReplicas = MaxReplicas
        /\ watchers[w].dep.specReplicas # watchers[w].specReplicas
        /\ watchers[w].dep.replicas = MaxReplicas
====
